---- MODULE Spec2Model ----
(***************************************************************************)
(* Model of the agentc-trading paper-trading engine: the portfolio        *)
(* (src/src/models/position.py), the risk manager (src/src/risk_manager.py)*)
(* and the configuration tables it reads (src/src/models/config.py).       *)
(*                                                                         *)
(* Python floats are modelled as exact rationals <<n, d>> in lowest terms  *)
(* with d > 0, so every comparison of the code is decided on the exact     *)
(* value of the expression the code evaluates.                             *)
(***************************************************************************)
EXTENDS Integers, Sequences, FiniteSets, TLC

VARIABLES portfolio, last, buffer, collector

vars == <<portfolio, last, buffer, collector>>

(***************************************************************************)
(* Exact arithmetic standing for the float operators of the source.        *)
(***************************************************************************)
RECURSIVE GCD(_, _)
GCD(a, b) == IF b = 0 THEN a ELSE GCD(b, a % b)

IAbs(n) == IF n < 0 THEN 0 - n ELSE n

Q(n, d) ==
    LET s == IF d < 0 THEN 0 - 1 ELSE 1
        g == GCD(IAbs(n), IAbs(d))
    IN  <<(s * n) \div g, (s * d) \div g>>

QInt(n) == <<n, 1>>
Zero == QInt(0)
QAdd(x, y) == Q(x[1] * y[2] + y[1] * x[2], x[2] * y[2])
QSub(x, y) == Q(x[1] * y[2] - y[1] * x[2], x[2] * y[2])
QMul(x, y) == Q(x[1] * y[1], x[2] * y[2])
QDiv(x, y) == Q(x[1] * y[2], x[2] * y[1])
QLt(x, y) == x[1] * y[2] < y[1] * x[2]
QLe(x, y) == x[1] * y[2] <= y[1] * x[2]
QGt(x, y) == QLt(y, x)
QGe(x, y) == QLe(y, x)
QMin(x, y) == IF QLe(x, y) THEN x ELSE y
QMax(x, y) == IF QGe(x, y) THEN x ELSE y
QAbs(x) == <<IAbs(x[1]), x[2]>>

(***************************************************************************)
(* models/decision.py: Action                                              *)
(***************************************************************************)
LONG == "LONG"
SHORT == "SHORT"
HOLD == "HOLD"
CLOSE == "CLOSE"

(***************************************************************************)
(* models/position.py: Position, ClosedTrade                               *)
(***************************************************************************)
unrealized_pnl(position, current_price) ==
    IF position.side = LONG
    THEN QMul(position.quantity, QSub(current_price, position.entry_price))
    ELSE IF position.side = SHORT
    THEN QMul(position.quantity, QSub(position.entry_price, current_price))
    ELSE Zero

unrealized_pnl_pct(position, current_price) ==
    IF position.margin = Zero
    THEN Zero
    ELSE QMul(QDiv(unrealized_pnl(position, current_price), position.margin), QInt(100))

should_stop_loss(position, current_price) ==
    IF QLe(position.stop_loss, Zero) THEN FALSE
    ELSE IF position.side = LONG THEN QLe(current_price, position.stop_loss)
    ELSE IF position.side = SHORT THEN QGe(current_price, position.stop_loss)
    ELSE FALSE

should_take_profit(position, current_price) ==
    IF QLe(position.take_profit, Zero) THEN FALSE
    ELSE IF position.side = LONG THEN QGe(current_price, position.take_profit)
    ELSE IF position.side = SHORT THEN QLe(current_price, position.take_profit)
    ELSE FALSE

is_win(trade) == QGt(trade.pnl, Zero)

(***************************************************************************)
(* models/position.py: PortfolioState                                      *)
(***************************************************************************)
RECURSIVE SumMargin(_)
SumMargin(ps) ==
    IF ps = <<>> THEN Zero ELSE QAdd(Head(ps).margin, SumMargin(Tail(ps)))

total_margin_in_use(pf) == SumMargin(pf.open_positions)

available_budget(pf) == QSub(pf.current_budget, total_margin_in_use(pf))

total_trades(pf) == Len(pf.closed_trades)

\* closed_trades[-n:] : the last n trades, or all of them when there are fewer
LastN(s, n) == IF Len(s) <= n THEN s ELSE SubSeq(s, Len(s) - n + 1, Len(s))

WinCount(s) == Cardinality({i \in 1..Len(s) : is_win(s[i])})

win_rate_last_n(pf, n) ==
    LET recent == LastN(pf.closed_trades, n)
    IN  IF recent = <<>> THEN Zero ELSE Q(WinCount(recent), Len(recent))

RECURSIVE StreakFrom(_, _)
StreakFrom(s, i) ==
    IF i = 0 THEN 0
    ELSE IF ~is_win(s[i]) THEN 1 + StreakFrom(s, i - 1)
    ELSE 0

losing_streak(pf) == StreakFrom(pf.closed_trades, Len(pf.closed_trades))

drawdown_from_peak(pf) ==
    IF pf.peak_budget = Zero
    THEN Zero
    ELSE QDiv(QSub(pf.peak_budget, pf.current_budget), pf.peak_budget)

\* mutant: the comparison of update_peak reversed
update_peak_reversed(pf) ==
    IF QLt(pf.current_budget, pf.peak_budget)
    THEN [pf EXCEPT !.peak_budget = pf.current_budget]
    ELSE pf

update_peak(pf) ==
    IF QGt(pf.current_budget, pf.peak_budget)
    THEN [pf EXCEPT !.peak_budget = pf.current_budget]
    ELSE pf

\* list.remove: drops the first element equal to x
RECURSIVE RemoveFirst(_, _)
RemoveFirst(s, x) ==
    IF s = <<>> THEN <<>>
    ELSE IF Head(s) = x THEN Tail(s)
    ELSE <<Head(s)>> \o RemoveFirst(Tail(s), x)

MakeTrade(position, exit_price, reason) ==
    [symbol |-> position.symbol,
     side |-> position.side,
     entry_price |-> position.entry_price,
     exit_price |-> exit_price,
     quantity |-> position.quantity,
     leverage |-> position.leverage,
     margin |-> position.margin,
     pnl |-> unrealized_pnl(position, exit_price),
     pnl_pct |-> unrealized_pnl_pct(position, exit_price),
     close_reason |-> reason]

\* mutant: closing also credits the released margin to the budget
close_position_credits_margin(pf, position, exit_price, reason) ==
    LET trade == MakeTrade(position, exit_price, reason)
        moved == [pf EXCEPT
                    !.current_budget = QAdd(QAdd(pf.current_budget, trade.pnl), trade.margin),
                    !.closed_trades = Append(pf.closed_trades, trade),
                    !.open_positions = RemoveFirst(pf.open_positions, position)]
    IN  update_peak(moved)

\* mutant: the closed position stays in the book
close_position_stays_open(pf, position, exit_price, reason) ==
    LET trade == MakeTrade(position, exit_price, reason)
        moved == [pf EXCEPT
                    !.current_budget = QAdd(pf.current_budget, trade.pnl),
                    !.closed_trades = Append(pf.closed_trades, trade)]
    IN  update_peak(moved)

close_position(pf, position, exit_price, reason) ==
    LET trade == MakeTrade(position, exit_price, reason)
        moved == [pf EXCEPT
                    !.current_budget = QAdd(pf.current_budget, trade.pnl),
                    !.closed_trades = Append(pf.closed_trades, trade),
                    !.open_positions = RemoveFirst(pf.open_positions, position)]
    IN  update_peak(moved)

open_position(pf, position) ==
    [pf EXCEPT !.open_positions = Append(pf.open_positions, position)]

get_positions_for_symbol(pf, symbol) ==
    SelectSeq(pf.open_positions, LAMBDA p : p.symbol = symbol)

(***************************************************************************)
(* models/config.py: ReserveThresholds, RiskConfig, LeverageScale defaults *)
(***************************************************************************)
free_pct == Q(70, 100)
guarded_pct == Q(20, 100)
guarded_win_rate == Q(45, 100)
guarded_min_trades == 20
guarded_max_losing_streak == 3
guarded_min_confidence == Q(75, 100)
guarded_min_rr == QInt(2)
guarded_max_leverage == QInt(3)
floor_pct == Q(5, 100)
floor_win_rate == Q(60, 100)
floor_min_trades == 30
lockout_pct == Q(5, 100)

max_loss_per_trade_pct == Q(2, 100)
max_total_exposure_pct == Q(80, 100)
min_sl_atr_multiple == Q(5, 10)
max_sl_atr_multiple == QInt(3)
drawdown_reduce_pct == Q(10, 100)
drawdown_halt_pct == Q(20, 100)

\* (min_confidence, max_confidence, max_leverage)
thresholds ==
    << <<Zero, Q(3, 10), QInt(1)>>,
       <<Q(3, 10), Q(5, 10), QInt(2)>>,
       <<Q(5, 10), Q(7, 10), QInt(5)>>,
       <<Q(7, 10), Q(85, 100), QInt(7)>>,
       <<Q(85, 100), Q(101, 100), QInt(10)>> >>

RECURSIVE ScanThresholds(_, _)
ScanThresholds(rows, confidence) ==
    IF rows = <<>> THEN QInt(1)
    ELSE IF QLe(Head(rows)[1], confidence) /\ QLt(confidence, Head(rows)[2])
    THEN Head(rows)[3]
    ELSE ScanThresholds(Tail(rows), confidence)

max_leverage_for(confidence) == ScanThresholds(thresholds, confidence)

(***************************************************************************)
(* risk_manager.py: RiskManager                                            *)
(***************************************************************************)
\* mutant: the win rate is taken over the whole record, not the last 20 trades
_guarded_unlocked_whole_record(pf) ==
    IF total_trades(pf) < guarded_min_trades THEN FALSE
    ELSE IF QLt(win_rate_last_n(pf, total_trades(pf)), guarded_win_rate) THEN FALSE
    ELSE IF losing_streak(pf) >= guarded_max_losing_streak THEN FALSE
    ELSE TRUE

_guarded_unlocked(pf) ==
    IF total_trades(pf) < guarded_min_trades THEN FALSE
    ELSE IF QLt(win_rate_last_n(pf, guarded_min_trades), guarded_win_rate) THEN FALSE
    ELSE IF losing_streak(pf) >= guarded_max_losing_streak THEN FALSE
    ELSE TRUE

_floor_unlocked(pf) ==
    IF total_trades(pf) < floor_min_trades THEN FALSE
    ELSE IF QLt(win_rate_last_n(pf, floor_min_trades), floor_win_rate) THEN FALSE
    ELSE TRUE

\* mutant: an unlocked floor also releases the lockout share
compute_budget_zones_lockout_released(pf) ==
    LET total == pf.current_budget
        free == QMul(total, free_pct)
        guarded == QMul(total, guarded_pct)
        floor == QMul(total, floor_pct)
        lockout == QMul(total, lockout_pct)
        acc1 == IF _guarded_unlocked(pf) THEN QAdd(free, guarded) ELSE free
        acc2 == IF _floor_unlocked(pf) THEN QAdd(QAdd(acc1, floor), lockout) ELSE acc1
    IN  [total |-> total,
         free |-> free,
         guarded |-> guarded,
         floor |-> floor,
         lockout |-> lockout,
         accessible |-> QMax(Zero, QSub(acc2, total_margin_in_use(pf)))]

compute_budget_zones(pf) ==
    LET total == pf.current_budget
        free == QMul(total, free_pct)
        guarded == QMul(total, guarded_pct)
        floor == QMul(total, floor_pct)
        acc1 == IF _guarded_unlocked(pf) THEN QAdd(free, guarded) ELSE free
        acc2 == IF _floor_unlocked(pf) THEN QAdd(acc1, floor) ELSE acc1
    IN  [total |-> total,
         free |-> free,
         guarded |-> guarded,
         floor |-> floor,
         lockout |-> QMul(total, lockout_pct),
         accessible |-> QMax(Zero, QSub(acc2, total_margin_in_use(pf)))]

\* report.timeframes maps a subset of {"15m", "5m", "1h"} to its atr_14
RECURSIVE ScanAtr(_, _)
ScanAtr(tfs, report) ==
    IF tfs = <<>> THEN Zero
    ELSE IF Head(tfs) \in DOMAIN report /\ QGt(report[Head(tfs)], Zero)
    THEN report[Head(tfs)]
    ELSE ScanAtr(Tail(tfs), report)

_get_atr(report) == ScanAtr(<<"15m", "5m", "1h">>, report)

R_HALTED == "HALTED: drawdown >= halt threshold"
R_HALVED == "Size halved: drawdown >= reduce threshold"
R_CONFIDENCE == "Confidence too low"
R_NO_BUDGET == "No accessible budget (all zones locked or in use)"
R_NO_SL == "No stop-loss provided"
R_LONG_SL == "LONG stop-loss must be below current price"
R_SHORT_SL == "SHORT stop-loss must be above current price"
R_TIGHT == "SL too tight"
R_WIDE == "SL too wide"
R_RR == "R:R ratio below minimum"
R_ZERO_SIZE == "Position size rounds to zero after risk limits"
R_EXPOSURE == "Total exposure limit reached"
R_ALREADY(side) ==
    IF side = LONG THEN "Already have LONG position" ELSE "Already have SHORT position"
R_OPPOSITE(side) ==
    IF side = LONG THEN "Have opposite LONG position - CLOSE it first"
    ELSE "Have opposite SHORT position - CLOSE it first"

ValidatedDecision(decision) ==
    [original |-> decision,
     approved |-> FALSE,
     adjusted_leverage |-> Zero,
     adjusted_quantity |-> Zero,
     rejection_reasons |-> <<>>,
     margin_required |-> Zero,
     max_loss |-> Zero]

\* mutant: HOLD/CLOSE approved without copying leverage and quantity
PassThrough_uncopied(decision) ==
    [ValidatedDecision(decision) EXCEPT !.approved = TRUE]

\* Layer 0: HOLD/CLOSE pass through
PassThrough(decision) ==
    [ValidatedDecision(decision) EXCEPT
        !.approved = TRUE,
        !.adjusted_leverage = decision.leverage,
        !.adjusted_quantity = decision.quantity]

\* mutant: the halt threshold compared strictly
Halted_strict(pf) == QGt(drawdown_from_peak(pf), drawdown_halt_pct)

\* Layer 1: drawdown circuit breaker and size multiplier
Halted(pf) == QGe(drawdown_from_peak(pf), drawdown_halt_pct)

Halved(pf) == QGe(drawdown_from_peak(pf), drawdown_reduce_pct)

SizeMultiplier(pf) == IF Halved(pf) THEN Q(1, 2) ELSE QInt(1)

\* Layer 2: confidence clamped to [0, 1]
ClampConfidence(c) == QMax(Zero, QMin(QInt(1), c))

\* mutant: max taken where min is meant
CappedLeverage_max(decision) ==
    QMax(decision.leverage, max_leverage_for(ClampConfidence(decision.confidence)))

\* Layer 3: leverage cap by confidence
CappedLeverage(decision) ==
    QMin(decision.leverage, max_leverage_for(ClampConfidence(decision.confidence)))

\* Layer 4: a low-confidence decision that would dip beyond the free zone
GuardedRestricted(decision, pf) ==
    /\ QGt(QSub(available_budget(pf), compute_budget_zones(pf).free), Zero)
    /\ QLt(ClampConfidence(decision.confidence), guarded_min_confidence)

Accessible(decision, pf) ==
    LET zones == compute_budget_zones(pf)
    IN  IF GuardedRestricted(decision, pf)
        THEN QMin(zones.accessible,
                  QMax(Zero, QSub(zones.free, total_margin_in_use(pf))))
        ELSE zones.accessible

AdjustedLeverage(decision, pf) ==
    LET lev == CappedLeverage(decision)
    IN  IF GuardedRestricted(decision, pf) /\ QGt(lev, guarded_max_leverage)
        THEN QMin(lev, guarded_max_leverage)
        ELSE lev

\* Layer 5: stop-loss validation; the rejection reason, or "" when it passes
SlDistance(decision, current_price) == QAbs(QSub(current_price, decision.stop_loss))

\* mutant: the direction of a SHORT's stop-loss is not checked
StopLossReason_short_unchecked(decision, atr_value, current_price) ==
    LET sl_distance == SlDistance(decision, current_price)
        sl_atr_ratio == QDiv(sl_distance, atr_value)
    IN  IF QLe(decision.stop_loss, Zero) THEN R_NO_SL
        ELSE IF decision.action = LONG /\ QGe(decision.stop_loss, current_price)
        THEN R_LONG_SL
        ELSE IF QGt(atr_value, Zero) /\ QLt(sl_atr_ratio, min_sl_atr_multiple)
        THEN R_TIGHT
        ELSE IF QGt(atr_value, Zero) /\ QGt(sl_atr_ratio, max_sl_atr_multiple)
        THEN R_WIDE
        ELSE ""

StopLossReason(decision, atr_value, current_price) ==
    LET sl_distance == SlDistance(decision, current_price)
        sl_atr_ratio == QDiv(sl_distance, atr_value)
    IN  IF QLe(decision.stop_loss, Zero) THEN R_NO_SL
        ELSE IF decision.action = LONG /\ QGe(decision.stop_loss, current_price)
        THEN R_LONG_SL
        ELSE IF decision.action = SHORT /\ QLe(decision.stop_loss, current_price)
        THEN R_SHORT_SL
        ELSE IF QGt(atr_value, Zero) /\ QLt(sl_atr_ratio, min_sl_atr_multiple)
        THEN R_TIGHT
        ELSE IF QGt(atr_value, Zero) /\ QGt(sl_atr_ratio, max_sl_atr_multiple)
        THEN R_WIDE
        ELSE ""

\* Layer 6: risk/reward ratio below the minimum of the zone being accessed
RiskRewardFails(decision, accessible, free, current_price) ==
    LET sl_distance == SlDistance(decision, current_price)
        tp_distance == QAbs(QSub(decision.take_profit, current_price))
        rr_ratio == IF QGt(sl_distance, Zero) THEN QDiv(tp_distance, sl_distance) ELSE Zero
        min_rr == IF QGt(accessible, free) THEN QMax(Q(3, 2), guarded_min_rr) ELSE Q(3, 2)
    IN  QGt(decision.take_profit, Zero) /\ QLt(rr_ratio, min_rr)

\* mutant: the loss budget ignores the size multiplier
SizedQuantity_unhalved(decision, accessible, size_multiplier, current_price) ==
    LET sl_distance == SlDistance(decision, current_price)
        sl_pct == IF QGt(current_price, Zero) THEN QDiv(sl_distance, current_price) ELSE Zero
        max_loss_budget == QMul(accessible, max_loss_per_trade_pct)
        max_quantity ==
            IF QGt(sl_pct, Zero)
            THEN QDiv(max_loss_budget, QMul(current_price, sl_pct))
            ELSE Zero
    IN  IF QGt(max_quantity, Zero) THEN QMin(decision.quantity, max_quantity) ELSE Zero

\* Layer 7: position sizing (2% max loss rule)
SizedQuantity(decision, accessible, size_multiplier, current_price) ==
    LET sl_distance == SlDistance(decision, current_price)
        sl_pct == IF QGt(current_price, Zero) THEN QDiv(sl_distance, current_price) ELSE Zero
        max_loss_budget == QMul(QMul(accessible, max_loss_per_trade_pct), size_multiplier)
        max_quantity ==
            IF QGt(sl_pct, Zero)
            THEN QDiv(max_loss_budget, QMul(current_price, sl_pct))
            ELSE Zero
    IN  IF QGt(max_quantity, Zero) THEN QMin(decision.quantity, max_quantity) ELSE Zero

\* quantity whose notional is margin * leverage
QuantityFor(margin, adjusted_leverage, current_price) ==
    IF QGt(current_price, Zero)
    THEN QDiv(QMul(margin, adjusted_leverage), current_price)
    ELSE Zero

\* mutant: the margin is not reduced to fit the accessible budget
MarginFit_unreduced(quantity, adjusted_leverage, accessible, current_price) ==
    LET notional == QMul(quantity, current_price)
    IN  [margin |-> IF QGt(adjusted_leverage, Zero)
                    THEN QDiv(notional, adjusted_leverage)
                    ELSE notional,
         quantity |-> quantity]

\* Layer 8, first half: margin needed, reduced to fit the accessible budget
MarginFit(quantity, adjusted_leverage, accessible, current_price) ==
    LET notional == QMul(quantity, current_price)
        margin_needed == IF QGt(adjusted_leverage, Zero)
                         THEN QDiv(notional, adjusted_leverage)
                         ELSE notional
    IN  IF QGt(margin_needed, accessible)
        THEN [margin |-> accessible,
              quantity |-> QuantityFor(accessible, adjusted_leverage, current_price)]
        ELSE [margin |-> margin_needed, quantity |-> quantity]

\* Layer 8, second half: total exposure check
ExposureFit(pf, fit, adjusted_leverage, current_price) ==
    LET total_exposure == QAdd(total_margin_in_use(pf), fit.margin)
        max_exposure == QMul(pf.current_budget, max_total_exposure_pct)
        allowed_margin == QMax(Zero, QSub(max_exposure, total_margin_in_use(pf)))
    IN  IF QGt(total_exposure, max_exposure)
        THEN [rejected |-> QLe(allowed_margin, Zero),
              margin |-> allowed_margin,
              quantity |-> QuantityFor(allowed_margin, adjusted_leverage, current_price)]
        ELSE [rejected |-> FALSE, margin |-> fit.margin, quantity |-> fit.quantity]

\* mutant: only a position of the same side is a conflict
ConflictReason_same_side_only(decision, pf) ==
    LET existing == get_positions_for_symbol(pf, decision.symbol)
    IN  IF existing = <<>> THEN ""
        ELSE IF Head(existing).side = decision.action
        THEN R_ALREADY(Head(existing).side)
        ELSE ""

\* Layer 9: existing position conflict; the rejection reason, or "" when none
ConflictReason(decision, pf) ==
    LET existing == get_positions_for_symbol(pf, decision.symbol)
    IN  IF existing = <<>> THEN ""
        ELSE IF Head(existing).side = decision.action
        THEN R_ALREADY(Head(existing).side)
        ELSE R_OPPOSITE(Head(existing).side)

\* mutant: the position conflict is checked before the exposure limit
validate_decision_conflict_first(decision, pf, report, current_price) ==
    LET result == ValidatedDecision(decision)
        Reject(rs) == [result EXCEPT !.rejection_reasons = rs]
        reasons == IF Halved(pf) THEN <<R_HALVED>> ELSE <<>>
        confidence == ClampConfidence(decision.confidence)
        adjusted_leverage == AdjustedLeverage(decision, pf)
        accessible == Accessible(decision, pf)
        sl_reason == StopLossReason(decision, _get_atr(report), current_price)
        quantity == SizedQuantity(decision, accessible, SizeMultiplier(pf), current_price)
        fit == MarginFit(quantity, adjusted_leverage, accessible, current_price)
        exposure == ExposureFit(pf, fit, adjusted_leverage, current_price)
        conflict == ConflictReason(decision, pf)
    IN  IF decision.action \in {HOLD, CLOSE} THEN PassThrough(decision)
        ELSE IF Halted(pf) THEN Reject(<<R_HALTED>>)
        ELSE IF QLt(confidence, Q(1, 10)) THEN Reject(Append(reasons, R_CONFIDENCE))
        ELSE IF QLe(accessible, Zero) THEN Reject(Append(reasons, R_NO_BUDGET))
        ELSE IF sl_reason # "" THEN Reject(Append(reasons, sl_reason))
        ELSE IF RiskRewardFails(decision, accessible, compute_budget_zones(pf).free,
                                current_price)
        THEN Reject(Append(reasons, R_RR))
        ELSE IF QLe(quantity, Zero) THEN Reject(Append(reasons, R_ZERO_SIZE))
        ELSE IF conflict # "" THEN Reject(Append(reasons, conflict))
        ELSE IF exposure.rejected THEN Reject(Append(reasons, R_EXPOSURE))
        ELSE [result EXCEPT
                !.approved = TRUE,
                !.adjusted_leverage = adjusted_leverage,
                !.adjusted_quantity = exposure.quantity,
                !.margin_required = exposure.margin,
                !.max_loss = QMul(exposure.quantity,
                                  SlDistance(decision, current_price)),
                !.rejection_reasons = reasons]

validate_decision(decision, pf, report, current_price) ==
    LET result == ValidatedDecision(decision)
        Reject(rs) == [result EXCEPT !.rejection_reasons = rs]
        reasons == IF Halved(pf) THEN <<R_HALVED>> ELSE <<>>
        confidence == ClampConfidence(decision.confidence)
        adjusted_leverage == AdjustedLeverage(decision, pf)
        accessible == Accessible(decision, pf)
        sl_reason == StopLossReason(decision, _get_atr(report), current_price)
        quantity == SizedQuantity(decision, accessible, SizeMultiplier(pf), current_price)
        fit == MarginFit(quantity, adjusted_leverage, accessible, current_price)
        exposure == ExposureFit(pf, fit, adjusted_leverage, current_price)
        conflict == ConflictReason(decision, pf)
    IN  IF decision.action \in {HOLD, CLOSE} THEN PassThrough(decision)
        ELSE IF Halted(pf) THEN Reject(<<R_HALTED>>)
        ELSE IF QLt(confidence, Q(1, 10)) THEN Reject(Append(reasons, R_CONFIDENCE))
        ELSE IF QLe(accessible, Zero) THEN Reject(Append(reasons, R_NO_BUDGET))
        ELSE IF sl_reason # "" THEN Reject(Append(reasons, sl_reason))
        ELSE IF RiskRewardFails(decision, accessible, compute_budget_zones(pf).free,
                                current_price)
        THEN Reject(Append(reasons, R_RR))
        ELSE IF QLe(quantity, Zero) THEN Reject(Append(reasons, R_ZERO_SIZE))
        ELSE IF exposure.rejected THEN Reject(Append(reasons, R_EXPOSURE))
        ELSE IF conflict # "" THEN Reject(Append(reasons, conflict))
        ELSE [result EXCEPT
                !.approved = TRUE,
                !.adjusted_leverage = adjusted_leverage,
                !.adjusted_quantity = exposure.quantity,
                !.margin_required = exposure.margin,
                !.max_loss = QMul(exposure.quantity,
                                  SlDistance(decision, current_price)),
                !.rejection_reasons = reasons]

(***************************************************************************)
(* strategy.py: StrategyEngine.check_stop_loss_take_profit.  prices maps   *)
(* the symbols that have a price to it.                                    *)
(***************************************************************************)
\* mutant: the take-profit test comes before the stop-loss test
RECURSIVE positions_to_close_tp_first(_, _)
positions_to_close_tp_first(positions, prices) ==
    IF positions = <<>> THEN <<>>
    ELSE LET pos == Head(positions)
             rest == positions_to_close_tp_first(Tail(positions), prices)
         IN  IF pos.symbol \notin DOMAIN prices THEN rest
             ELSE IF should_take_profit(pos, prices[pos.symbol])
             THEN <<[pos |-> pos, price |-> prices[pos.symbol], reason |-> "TP"]>> \o rest
             ELSE IF should_stop_loss(pos, prices[pos.symbol])
             THEN <<[pos |-> pos, price |-> prices[pos.symbol], reason |-> "SL"]>> \o rest
             ELSE rest

\* first loop: (pos, price, reason) for each open position that triggers
RECURSIVE positions_to_close(_, _)
positions_to_close(positions, prices) ==
    IF positions = <<>> THEN <<>>
    ELSE LET pos == Head(positions)
             rest == positions_to_close(Tail(positions), prices)
         IN  IF pos.symbol \notin DOMAIN prices THEN rest
             ELSE IF should_stop_loss(pos, prices[pos.symbol])
             THEN <<[pos |-> pos, price |-> prices[pos.symbol], reason |-> "SL"]>> \o rest
             ELSE IF should_take_profit(pos, prices[pos.symbol])
             THEN <<[pos |-> pos, price |-> prices[pos.symbol], reason |-> "TP"]>> \o rest
             ELSE rest

\* second loop: close each of them in turn
RECURSIVE CloseAll(_, _)
CloseAll(pf, closing) ==
    IF closing = <<>> THEN pf
    ELSE CloseAll(close_position(pf, Head(closing).pos, Head(closing).price,
                                 Head(closing).reason),
                  Tail(closing))

check_stop_loss_take_profit(pf, prices) ==
    CloseAll(pf, positions_to_close(pf.open_positions, prices))

(***************************************************************************)
(* models/market.py: KlineBuffer.  A buffer is its max_size and its six    *)
(* columns; a candle is the six values of one row.                         *)
(***************************************************************************)
Columns == <<"open", "high", "low", "close", "volume", "timestamp">>

KlineBuffer(max_size) ==
    [max_size |-> max_size, open |-> <<>>, high |-> <<>>, low |-> <<>>,
     close |-> <<>>, volume |-> <<>>, timestamp |-> <<>>]

Candle(o, h, l, c, v, ts) ==
    [open |-> o, high |-> h, low |-> l, close |-> c, volume |-> v, timestamp |-> ts]

size(buf) == Len(buf.close)

\* s[-n:] for n >= 0: the last n elements, all of s when it has fewer, and
\* all of s when n = 0 (-0 is 0)
SliceLast(s, n) == IF n = 0 THEN s ELSE LastN(s, n)

\* the branch of append that overwrites the in-progress candle
UpdatesInPlace(buf, ts) ==
    size(buf) > 0 /\ buf.timestamp[Len(buf.timestamp)] = ts

\* a[-1] = x
SetLast(a, x) == [a EXCEPT ![Len(a)] = x]

\* the columns after np.append, untruncated
Extended(buf, k) ==
    [buf EXCEPT !.open = Append(buf.open, k.open),
                !.high = Append(buf.high, k.high),
                !.low = Append(buf.low, k.low),
                !.close = Append(buf.close, k.close),
                !.volume = Append(buf.volume, k.volume),
                !.timestamp = Append(buf.timestamp, k.timestamp)]

Truncated(buf) ==
    [buf EXCEPT !.open = SliceLast(buf.open, buf.max_size),
                !.high = SliceLast(buf.high, buf.max_size),
                !.low = SliceLast(buf.low, buf.max_size),
                !.close = SliceLast(buf.close, buf.max_size),
                !.volume = SliceLast(buf.volume, buf.max_size),
                !.timestamp = SliceLast(buf.timestamp, buf.max_size)]

\* mutant: a full buffer keeps its oldest rows ([:max_size])
append_keeps_oldest(buf, k) ==
    IF UpdatesInPlace(buf, k.timestamp)
    THEN [buf EXCEPT !.open = SetLast(buf.open, k.open),
                     !.high = SetLast(buf.high, k.high),
                     !.low = SetLast(buf.low, k.low),
                     !.close = SetLast(buf.close, k.close),
                     !.volume = SetLast(buf.volume, k.volume)]
    ELSE LET ext == Extended(buf, k)
         IN  IF size(ext) > buf.max_size
             THEN [ext EXCEPT !.open = SubSeq(ext.open, 1, buf.max_size),
                              !.high = SubSeq(ext.high, 1, buf.max_size),
                              !.low = SubSeq(ext.low, 1, buf.max_size),
                              !.close = SubSeq(ext.close, 1, buf.max_size),
                              !.volume = SubSeq(ext.volume, 1, buf.max_size),
                              !.timestamp = SubSeq(ext.timestamp, 1, buf.max_size)]
             ELSE ext

\* mutant: the in-progress update leaves the open of the candle as it was
append_update_keeps_open(buf, k) ==
    IF UpdatesInPlace(buf, k.timestamp)
    THEN [buf EXCEPT !.high = SetLast(buf.high, k.high),
                     !.low = SetLast(buf.low, k.low),
                     !.close = SetLast(buf.close, k.close),
                     !.volume = SetLast(buf.volume, k.volume)]
    ELSE LET ext == Extended(buf, k)
         IN  IF size(ext) > buf.max_size THEN Truncated(ext) ELSE ext

append(buf, k) ==
    IF UpdatesInPlace(buf, k.timestamp)
    THEN [buf EXCEPT !.open = SetLast(buf.open, k.open),
                     !.high = SetLast(buf.high, k.high),
                     !.low = SetLast(buf.low, k.low),
                     !.close = SetLast(buf.close, k.close),
                     !.volume = SetLast(buf.volume, k.volume)]
    ELSE LET ext == Extended(buf, k)
         IN  IF size(ext) > buf.max_size THEN Truncated(ext) ELSE ext

\* rows: the candles to load, oldest first (six lists of equal length)
RECURSIVE Column(_, _)
Column(rows, col) ==
    IF rows = <<>> THEN <<>> ELSE <<Head(rows)[col]>> \o Column(Tail(rows), col)

load_bulk(buf, rows) ==
    [max_size |-> buf.max_size,
     open |-> SliceLast(Column(rows, "open"), buf.max_size),
     high |-> SliceLast(Column(rows, "high"), buf.max_size),
     low |-> SliceLast(Column(rows, "low"), buf.max_size),
     close |-> SliceLast(Column(rows, "close"), buf.max_size),
     volume |-> SliceLast(Column(rows, "volume"), buf.max_size),
     timestamp |-> SliceLast(Column(rows, "timestamp"), buf.max_size)]


(***************************************************************************)
(* Inputs.  Symbols, positions, prices and decisions are drawn from small  *)
(* sets built around the scenarios of tests/test_risk_manager.py and       *)
(* tests/test_decision_parsing.py.                                         *)
(***************************************************************************)
ETH == "PERP_ETH_USDC"
BTC == "PERP_BTC_USDC"
Symbols == {ETH, BTC}

Position(symbol, side, entry_price, quantity, leverage, stop_loss, take_profit, margin) ==
    [symbol |-> symbol, side |-> side, entry_price |-> entry_price,
     quantity |-> quantity, leverage |-> leverage, stop_loss |-> stop_loss,
     take_profit |-> take_profit, margin |-> margin]

EthLong ==
    Position(ETH, LONG, QInt(3000), Q(1, 10), QInt(5), QInt(2940), QInt(3120), QInt(60))
EthShort ==
    Position(ETH, SHORT, QInt(3000), Q(1, 10), QInt(5), QInt(3060), QInt(2880), QInt(60))
BtcLong ==
    Position(BTC, LONG, QInt(6000), Q(1, 2), QInt(4), QInt(5900), QInt(6200), QInt(750))

Positions == {EthLong, EthShort, BtcLong}

ExitPrices(symbol) ==
    IF symbol = ETH
    THEN {QInt(2940), QInt(3000), QInt(3060)}
    ELSE {QInt(3000), QInt(6200)}

CloseReasons == {"SL", "TP", "LLM_CLOSE"}

MaxOpen == 2
MaxTrades == 2

\* the buffers of the collector hold 200 rows; the model's hold MaxSize
MaxSize == 2

(***************************************************************************)
(* collector.py: DataCollector.  Python objects that are shared or changed *)
(* in place live on a heap, a sequence of values addressed by position:    *)
(* an array or list is a sequence, an object a record whose attributes are *)
(* numbers or references.  The collector is its lock, the heap and its     *)
(* attributes.  Every field of the k-th message carries the number k; the  *)
(* clock reads k while the k-th message is handled.                        *)
(***************************************************************************)
Timeframes == <<"5m", "15m", "1h">>

\* the collector keeps 500 trades; the model's keeps MAX_RECENT_TRADES
MAX_RECENT_TRADES == 1

\* a new object: the heap afterwards and the reference to the object
Alloc(heap, value) == [heap |-> Append(heap, value), ref |-> Len(heap) + 1]

\* mutant: the snapshot takes the array itself
copy_shares(heap, ref) == [heap |-> heap, ref |-> ref]

\* ndarray.copy(), list(...)
copy(heap, ref) == Alloc(heap, heap[ref])

\* the KlineBuffer object at ref with its arrays read out
BufferAt(heap, ref) ==
    [max_size |-> heap[ref].max_size,
     open |-> heap[heap[ref].open], high |-> heap[heap[ref].high],
     low |-> heap[heap[ref].low], close |-> heap[heap[ref].close],
     volume |-> heap[heap[ref].volume], timestamp |-> heap[heap[ref].timestamp]]

\* self.open = <new array>, ... : six new arrays bound to the attributes of
\* the object at ref
Rebind(heap, ref, buf) ==
    LET base == Len(heap)
        arrays == [i \in 1..Len(Columns) |-> buf[Columns[i]]]
    IN  [heap \o arrays EXCEPT ![ref] =
            [max_size |-> buf.max_size,
             open |-> base + 1, high |-> base + 2, low |-> base + 3,
             close |-> base + 4, volume |-> base + 5, timestamp |-> base + 6]]

\* self.open[-1] = o, ... : the arrays of the object at ref written in place
Overwrite(heap, ref, buf) ==
    [heap EXCEPT ![heap[ref].open] = buf.open,
                 ![heap[ref].high] = buf.high,
                 ![heap[ref].low] = buf.low,
                 ![heap[ref].close] = buf.close,
                 ![heap[ref].volume] = buf.volume]

\* KlineBuffer(max_size): a new buffer object with six empty arrays
NewBuffer(heap, max_size) ==
    LET made == Alloc(heap, [max_size |-> max_size])
    IN  [heap |-> Rebind(made.heap, made.ref, KlineBuffer(max_size)), ref |-> made.ref]

BBO == [bid_price |-> 0, bid_qty |-> 0, ask_price |-> 0, ask_qty |-> 0, timestamp |-> 0]

TickerData ==
    [open_24h |-> 0, high_24h |-> 0, low_24h |-> 0, close_24h |-> 0,
     volume_24h |-> 0, change_24h |-> 0, timestamp |-> 0]

\* DataCollector.__init__
DataCollector ==
    LET m5 == NewBuffer(<<>>, MaxSize)
        m15 == NewBuffer(m5.heap, MaxSize)
        h1 == NewBuffer(m15.heap, MaxSize)
        base == Len(h1.heap)
    IN  [lock |-> "free",
         heap |-> h1.heap \o
                  << <<>>, <<>>,
                     [bids |-> base + 1, asks |-> base + 2, timestamp |-> 0],
                     BBO,
                     [funding_rate |-> 0, est_funding_rate |-> 0,
                      next_funding_time |-> 0, timestamp |-> 0],
                     [open_interest |-> 0, timestamp |-> 0],
                     [long_ratio |-> Q(1, 2), short_ratio |-> Q(1, 2), timestamp |-> 0],
                     TickerData,
                     <<>> >>,
         _klines |-> [tf \in {"5m", "15m", "1h"} |->
                         IF tf = "5m" THEN m5.ref ELSE IF tf = "15m" THEN m15.ref ELSE h1.ref],
         _orderbook |-> base + 3,
         _bbo |-> base + 4,
         _funding |-> base + 5,
         _open_interest |-> base + 6,
         _traders_oi |-> base + 7,
         _ticker |-> base + 8,
         _recent_trades |-> base + 9,
         _mark_price |-> 0,
         _index_price |-> 0]

\* the levels of the k-th orderbook message
Levels(k) == <<[price |-> k, quantity |-> k]>>

\* the statements of the handler of msg, in the order they run
Statements(msg) ==
    LET k == msg.k
        Set(obj, attr) == [op |-> "set", obj |-> obj, attr |-> attr, value |-> k]
    IN  CASE msg.topic = "kline" ->
               <<[op |-> "append", tf |-> msg.tf,
                  candle |-> Candle(10 * k, 10 * k + 2, 10 * k - 1, 10 * k + 1, k, msg.ts)]>>
          [] msg.topic = "orderbook" ->
               <<[op |-> "rebind", obj |-> "_orderbook", attr |-> "bids", value |-> Levels(k)],
                 [op |-> "rebind", obj |-> "_orderbook", attr |-> "asks", value |-> Levels(k)],
                 Set("_orderbook", "timestamp")>>
          [] msg.topic = "bbo" ->
               <<Set("_bbo", "bid_price"), Set("_bbo", "bid_qty"), Set("_bbo", "ask_price"),
                 Set("_bbo", "ask_qty"), Set("_bbo", "timestamp")>>
          [] msg.topic = "trade" ->
               <<[op |-> "append_trade",
                  trade |-> [price |-> k, quantity |-> k, side |-> msg.side, timestamp |-> k]],
                 [op |-> "truncate_trades"]>>
          [] msg.topic = "ticker" ->
               <<Set("_ticker", "open_24h"), Set("_ticker", "high_24h"),
                 Set("_ticker", "low_24h"), Set("_ticker", "close_24h"),
                 Set("_ticker", "volume_24h"), [op |-> "change_24h"],
                 Set("_ticker", "timestamp")>>
          [] msg.topic = "estfundingrate" ->
               <<Set("_funding", "est_funding_rate"), Set("_funding", "funding_rate"),
                 Set("_funding", "next_funding_time"), Set("_funding", "timestamp")>>
          [] msg.topic = "openinterest" ->
               <<Set("_open_interest", "open_interest"), Set("_open_interest", "timestamp")>>
          [] msg.topic = "markprice" -> <<[op |-> "field", field |-> "_mark_price", value |-> k]>>
          [] msg.topic = "indexprice" -> <<[op |-> "field", field |-> "_index_price", value |-> k]>>

\* one statement of a handler, run on the collector c
Execute(c, s) ==
    LET heap == c.heap
    IN  CASE s.op = "set" -> [c EXCEPT !.heap[c[s.obj]][s.attr] = s.value]
          [] s.op = "rebind" ->
               LET made == Alloc(heap, s.value)
               IN  [c EXCEPT !.heap = [made.heap EXCEPT ![c[s.obj]][s.attr] = made.ref]]
          [] s.op = "field" -> [c EXCEPT ![s.field] = s.value]
          [] s.op = "append" ->
               LET ref == c._klines[s.tf]
                   buf == BufferAt(heap, ref)
               IN  [c EXCEPT !.heap =
                       IF UpdatesInPlace(buf, s.candle.timestamp)
                       THEN Overwrite(heap, ref, append(buf, s.candle))
                       ELSE Rebind(heap, ref, append(buf, s.candle))]
          [] s.op = "append_trade" ->
               [c EXCEPT !.heap[c._recent_trades] = Append(@, s.trade)]
          [] s.op = "truncate_trades" ->
               IF Len(heap[c._recent_trades]) > MAX_RECENT_TRADES
               THEN LET made == Alloc(heap, LastN(heap[c._recent_trades], MAX_RECENT_TRADES))
                    IN  [c EXCEPT !.heap = made.heap, !._recent_trades = made.ref]
               ELSE c
          [] s.op = "change_24h" ->
               LET ticker == heap[c._ticker]
               IN  IF ticker.open_24h > 0
                   THEN [c EXCEPT !.heap[c._ticker].change_24h =
                            ((ticker.close_24h - ticker.open_24h) * 100) \div ticker.open_24h]
                   ELSE c

\* backfill_klines for one timeframe: load_bulk binds new arrays
Backfilled(c, tf, rows) ==
    [c EXCEPT !.heap = Rebind(c.heap, c._klines[tf], load_bulk(BufferAt(c.heap, c._klines[tf]), rows))]

\* the loop of get_snapshot over self._klines: the heap afterwards and the
\* new buffer of each timeframe copied so far
RECURSIVE CopyKlines(_, _, _, _)
CopyKlines(heap, self, klines, todo) ==
    IF todo = <<>> THEN [heap |-> heap, klines |-> klines]
    ELSE LET buf == heap[self._klines[Head(todo)]]
             o == copy(heap, buf.open)
             h == copy(o.heap, buf.high)
             l == copy(h.heap, buf.low)
             c == copy(l.heap, buf.close)
             v == copy(c.heap, buf.volume)
             ts == copy(v.heap, buf.timestamp)
             new_buf == Alloc(ts.heap,
                              [max_size |-> buf.max_size, open |-> o.ref, high |-> h.ref,
                               low |-> l.ref, close |-> c.ref, volume |-> v.ref,
                               timestamp |-> ts.ref])
         IN  CopyKlines(new_buf.heap, self,
                        [tf \in DOMAIN klines \cup {Head(todo)} |->
                            IF tf = Head(todo) THEN new_buf.ref ELSE klines[tf]],
                        Tail(todo))

\* mutant: the side of a trade is not looked at
RECURSIVE SumQuantity_any_side(_, _)
SumQuantity_any_side(trades, side) ==
    IF trades = <<>> THEN 0
    ELSE Head(trades).quantity + SumQuantity_any_side(Tail(trades), side)

\* sum(t.quantity for t in trades if t.side == side)
RECURSIVE SumQuantity(_, _)
SumQuantity(trades, side) ==
    IF trades = <<>> THEN 0
    ELSE (IF Head(trades).side = side THEN Head(trades).quantity ELSE 0)
           + SumQuantity(Tail(trades), side)

\* the MarketSnapshot(...) that get_snapshot returns: the heap afterwards
\* and the snapshot, whose objects are new ones
MarketSnapshot(self, klines) ==
    LET bids == copy(self.heap, self.heap[self._orderbook].bids)
        asks == copy(bids.heap, self.heap[self._orderbook].asks)
        trades == self.heap[self._recent_trades]
        base == Len(asks.heap)
    IN  [heap |-> asks.heap \o
                  << [bids |-> bids.ref, asks |-> asks.ref,
                      timestamp |-> self.heap[self._orderbook].timestamp],
                     self.heap[self._bbo],
                     self.heap[self._funding],
                     self.heap[self._open_interest],
                     self.heap[self._traders_oi],
                     [buy_volume |-> SumQuantity(trades, "BUY"),
                      sell_volume |-> SumQuantity(trades, "SELL"),
                      trade_count |-> Len(trades)],
                     self.heap[self._ticker] >>,
         snapshot |-> [klines |-> klines, orderbook |-> base + 1, bbo |-> base + 2,
                       funding |-> base + 3, open_interest |-> base + 4,
                       traders_oi |-> base + 5, volume_delta |-> base + 6,
                       ticker |-> base + 7, mark_price |-> self._mark_price,
                       index_price |-> self._index_price]]

\* the state of the market side while a specification of the trading side runs
MarketIdle ==
    /\ buffer = KlineBuffer(MaxSize)
    /\ collector = DataCollector

PortfolioState(budget) ==
    [initial_budget |-> budget,
     current_budget |-> budget,
     peak_budget |-> budget,
     open_positions |-> <<>>,
     closed_trades |-> <<>>]

(***************************************************************************)
(* strategy.py: _parse_response, process_response, _execute_decisions.     *)
(* A response text is a sequence of chunks, one or more lines each:        *)
(*   [kind |-> "fence"]   a code-fence line (three backquotes)             *)
(*   [kind |-> "prose"]   words without braces                             *)
(*   [kind |-> "braces"]  words between braces that are not JSON           *)
(*   [kind |-> "json", value |-> v]  a JSON document: v.type is "object"   *)
(*        or "array" (an array of numbers, no braces in it), and an object *)
(*        may have the key decisions, a list of objects                    *)
(* A JSON object maps the keys it has to their values; NULL is JSON null.  *)
(***************************************************************************)
SOL == "PERP_SOL_USDC"

symbols == <<ETH, BTC, SOL>>

NULL == "null"

hold(symbol) ==
    [symbol |-> symbol, action |-> HOLD, leverage |-> QInt(1), quantity |-> Zero,
     stop_loss |-> Zero, take_profit |-> Zero, confidence |-> Zero]

\* str.upper on the action strings the inputs use
upper(str) ==
    CASE str = "long" -> LONG
      [] str = "short" -> SHORT
      [] str = "hold" -> HOLD
      [] str = "close" -> CLOSE
      [] OTHER -> str

\* d.get(key, default)
Get(d, key, default) == IF key \in DOMAIN d THEN d[key] ELSE default

\* TradeDecision.from_dict: raised is "" when it returns, "ValueError" when
\* the action is not an Action, "AttributeError" when the action is null
from_dict(d) ==
    IF Get(d, "action", "HOLD") = NULL THEN [raised |-> "AttributeError"]
    ELSE IF upper(Get(d, "action", "HOLD")) \notin {LONG, SHORT, HOLD, CLOSE}
    THEN [raised |-> "ValueError"]
    ELSE [raised |-> "",
          decision |->
            [symbol |-> Get(d, "symbol", ""),
             action |-> upper(Get(d, "action", "HOLD")),
             leverage |-> Get(d, "leverage", QInt(1)),
             quantity |-> Get(d, "quantity", Zero),
             stop_loss |-> Get(d, "stop_loss", Zero),
             take_profit |-> Get(d, "take_profit", Zero),
             confidence |-> Get(d, "confidence", Zero)]]

IsFence(chunk) == chunk.kind = "fence"

IsDocument(chunk) == chunk.kind = "json"

HasBraces(chunk) ==
    IF IsDocument(chunk) THEN chunk.value.type = "object" ELSE chunk.kind = "braces"

\* content.startswith(fence): drop every fence line
StripFences(text) ==
    IF text # <<>> /\ IsFence(Head(text))
    THEN SelectSeq(text, LAMBDA chunk : ~IsFence(chunk))
    ELSE text

\* json.loads: content that is one JSON document, and nothing else, loads
Loads(content) == Len(content) = 1 /\ IsDocument(content[1])

\* content[content.find("{") : content.rfind("}") + 1]; <<>> when no brace
Braced(content) ==
    LET at == {i \in 1..Len(content) : HasBraces(content[i])}
    IN  IF at = {} THEN <<>>
        ELSE SubSeq(content, CHOOSE i \in at : \A j \in at : i <= j,
                             CHOOSE i \in at : \A j \in at : i >= j)

\* the loop over data.get("decisions", []): the decisions so far, or the
\* exception that ends it
RECURSIVE CollectDecisions(_, _)
CollectDecisions(entries, decisions) ==
    IF entries = <<>> THEN [raised |-> FALSE, decisions |-> decisions]
    ELSE LET made == from_dict(Head(entries))
         IN  IF made.raised = "AttributeError" THEN [raised |-> TRUE, decisions |-> <<>>]
             ELSE IF made.raised = "ValueError"
             THEN CollectDecisions(Tail(entries), decisions)
             ELSE CollectDecisions(Tail(entries), Append(decisions, made.decision))

\* the loop that adds a HOLD for each configured symbol without a decision
RECURSIVE FillMissing(_, _, _)
FillMissing(decisions, seen_symbols, todo) ==
    IF todo = <<>> THEN decisions
    ELSE IF Head(todo) \in seen_symbols
    THEN FillMissing(decisions, seen_symbols, Tail(todo))
    ELSE FillMissing(Append(decisions, hold(Head(todo))), seen_symbols, Tail(todo))

HoldAll == [i \in 1..Len(symbols) |-> hold(symbols[i])]

\* from the loaded document on; raised when data has no get (it is not an
\* object) or when an entry raises
DecisionsOf(data) ==
    IF data.type # "object" THEN [raised |-> TRUE, decisions |-> <<>>]
    ELSE LET got == CollectDecisions(Get(data, "decisions", <<>>), <<>>)
         IN  IF got.raised THEN got
             ELSE [raised |-> FALSE,
                   decisions |->
                     FillMissing(got.decisions,
                                 {got.decisions[i].symbol : i \in 1..Len(got.decisions)},
                                 symbols)]

_parse_response(response_text) ==
    LET content == StripFences(response_text)
    IN  IF Loads(content) THEN DecisionsOf(content[1].value)
        ELSE IF Braced(content) = <<>> THEN [raised |-> FALSE, decisions |-> HoldAll]
        ELSE IF ~Loads(Braced(content)) THEN [raised |-> TRUE, decisions |-> <<>>]
        ELSE DecisionsOf(Braced(content)[1].value)

R_NO_DATA == "No price/indicator data"

\* v.final_leverage, v.final_quantity
final_leverage(v) == IF v.approved THEN v.adjusted_leverage ELSE Zero

final_quantity(v) == IF v.approved THEN v.adjusted_quantity ELSE Zero

\* mutant: only the first position of the list is closed
CloseEach_first(pf, positions, price) ==
    IF positions = <<>> THEN pf
    ELSE close_position(pf, Head(positions), price, "LLM_CLOSE")

\* close every position of the list in turn at price
RECURSIVE CloseEach(_, _, _)
CloseEach(pf, positions, price) ==
    IF positions = <<>> THEN pf
    ELSE CHOOSE after \in
             {CloseEach(closed, Tail(positions), price) :
                 closed \in {close_position(pf, Head(positions), price, "LLM_CLOSE")}} : TRUE

\* mutant: a decision is executed whether or not it was approved
ExecuteOne_unapproved(pf, v, prices) ==
    LET decision == v.original
        price == Get(prices, decision.symbol, Zero)
        notional == QMul(final_quantity(v), price)
        margin == IF QGt(final_leverage(v), Zero)
                  THEN QDiv(notional, final_leverage(v))
                  ELSE notional
    IN  IF decision.action = CLOSE
        THEN CloseEach(pf, get_positions_for_symbol(pf, decision.symbol), price)
        ELSE IF decision.action \in {LONG, SHORT}
        THEN IF QLe(price, Zero) THEN pf
             ELSE open_position(pf,
                    Position(decision.symbol, decision.action, price, final_quantity(v),
                             final_leverage(v), decision.stop_loss,
                             decision.take_profit, margin))
        ELSE pf

\* one turn of the loop of _execute_decisions
ExecuteOne(pf, v, prices) ==
    LET decision == v.original
        price == Get(prices, decision.symbol, Zero)
        notional == QMul(final_quantity(v), price)
        margin == IF QGt(final_leverage(v), Zero)
                  THEN QDiv(notional, final_leverage(v))
                  ELSE notional
    IN  IF ~v.approved THEN pf
        ELSE IF decision.action = CLOSE
        THEN CloseEach(pf, get_positions_for_symbol(pf, decision.symbol), price)
        ELSE IF decision.action \in {LONG, SHORT}
        THEN IF QLe(price, Zero) THEN pf
             ELSE open_position(pf,
                    Position(decision.symbol, decision.action, price, final_quantity(v),
                             final_leverage(v), decision.stop_loss,
                             decision.take_profit, margin))
        ELSE pf

\* the loop: each turn starts from the portfolio the turn before left
RECURSIVE _execute_decisions(_, _, _)
_execute_decisions(pf, validated, prices) ==
    IF validated = <<>> THEN pf
    ELSE CHOOSE after \in
             {_execute_decisions(executed, Tail(validated), prices) :
                 executed \in {ExecuteOne(pf, Head(validated), prices)}} : TRUE

\* the body of the validation loop of process_response
ValidateOne(decision, pf, reports, prices) ==
    LET price == Get(prices, decision.symbol, Zero)
    IN  IF decision.symbol \notin DOMAIN reports \/ QLe(price, Zero)
        THEN [ValidatedDecision(decision) EXCEPT !.rejection_reasons = <<R_NO_DATA>>]
        ELSE validate_decision(decision, pf, reports[decision.symbol], price)

\* the validation loop: every decision is validated against the portfolio
\* as it is before any of them is executed
RECURSIVE ValidateEach(_, _, _, _)
ValidateEach(decisions, pf, reports, prices) ==
    IF decisions = <<>> THEN <<>>
    ELSE <<ValidateOne(Head(decisions), pf, reports, prices)>>
           \o ValidateEach(Tail(decisions), pf, reports, prices)

\* the list returned, the decisions that were validated, the portfolio
\* afterwards and whether the cycle recorded an error
process_response(pf, response_text, reports, prices) ==
    LET Executed(decisions, validated) ==
            [validated |-> validated,
             decisions |-> decisions,
             portfolio |-> _execute_decisions(pf, validated, prices),
             error |-> FALSE]
        Validated(parsed) ==
            IF parsed.raised
            THEN [validated |-> <<>>, decisions |-> <<>>, portfolio |-> pf, error |-> TRUE]
            ELSE CHOOSE result \in
                     {Executed(parsed.decisions, validated) :
                         validated \in {ValidateEach(parsed.decisions, pf, reports, prices)}} :
                     TRUE
    IN  CHOOSE result \in
            {Validated(parsed) : parsed \in {_parse_response(response_text)}} : TRUE

(***************************************************************************)
(* Spec: a fresh portfolio driven by open_position and close_position.     *)
(***************************************************************************)
Init ==
    /\ portfolio = PortfolioState(QInt(1000))
    /\ last = [op |-> "init"]
    /\ MarketIdle

OpenPosition ==
    \E position \in Positions :
        /\ Len(portfolio.open_positions) < MaxOpen
        /\ portfolio' = open_position(portfolio, position)
        /\ last' = [op |-> "open_position", position |-> position]
        /\ UNCHANGED <<buffer, collector>>

\* callers pass a member of open_positions (list.remove raises otherwise)
ClosePosition ==
    \E i \in 1..Len(portfolio.open_positions) :
        LET position == portfolio.open_positions[i]
        IN  \E exit_price \in ExitPrices(position.symbol), reason \in CloseReasons :
                /\ Len(portfolio.closed_trades) < MaxTrades
                /\ portfolio' = close_position(portfolio, position, exit_price, reason)
                /\ last' = [op |-> "close_position", position |-> position,
                            exit_price |-> exit_price]
                /\ UNCHANGED <<buffer, collector>>

Next == OpenPosition \/ ClosePosition

Spec == Init /\ [][Next]_vars

(***************************************************************************)
(* Portfolios with a trading record.  Each one is what a fresh portfolio   *)
(* becomes after a run of open_position / close_position round trips, so   *)
(* the record, the equity and the peak are those the code itself produces. *)
(***************************************************************************)
\* n identical round trips (open_position then close_position at exit_price).
\* Equity moves by the same pnl each time, so it is monotone over the run and
\* update_peak after the last close leaves the peak that updating after every
\* close leaves.
RoundTrips(pf, position, exit_price, reason, n) ==
    IF n = 0 THEN pf
    ELSE LET once == close_position(open_position(pf, position), position, exit_price, reason)
             trade == once.closed_trades[Len(once.closed_trades)]
         IN  update_peak([pf EXCEPT
                 !.current_budget = QAdd(pf.current_budget, QMul(QInt(n), trade.pnl)),
                 !.closed_trades = pf.closed_trades \o [i \in 1..n |-> trade]])

\* crashes: BtcLong closed at 3000 (-1500 each); lead: EthLong stopped out (-6 each);
\* wins: EthLong at take-profit (+6 each); tail: EthLong closed at tail_exit
\* (-6 or 0 each); drops: BtcLong closed at drop_exit
Record(pf, crashes, lead, wins, tail, tail_exit, drops, drop_exit) ==
    LET p1 == RoundTrips(pf, BtcLong, QInt(3000), "SL", crashes)
        p2 == RoundTrips(p1, EthLong, QInt(2940), "SL", lead)
        p3 == RoundTrips(p2, EthLong, QInt(3060), "TP", wins)
        p4 == RoundTrips(p3, EthLong, tail_exit, "LLM_CLOSE", tail)
    IN  RoundTrips(p4, BtcLong, drop_exit, "SL", drops)

RECURSIVE OpenAll(_, _)
OpenAll(pf, book) ==
    IF book = <<>> THEN pf ELSE OpenAll(open_position(pf, Head(book)), Tail(book))

\* the portfolio whose equity is `equity` after the record, with `book` open
Seasoned(equity, crashes, lead, wins, tail, tail_exit, drops, drop_exit, book) ==
    LET net == Record(PortfolioState(Zero), crashes, lead, wins, tail, tail_exit,
                      drops, drop_exit).current_budget
        start == PortfolioState(QSub(equity, net))
    IN  OpenAll(Record(start, crashes, lead, wins, tail, tail_exit, drops, drop_exit), book)

Books == {<<>>, <<BtcLong>>, <<EthLong>>, <<EthShort, EthLong>>}

(***************************************************************************)
(* SpecZones: compute_budget_zones over portfolios with every record of    *)
(* the shape  losses^lead wins^wins non-wins^tail.                         *)
(***************************************************************************)
MaxLead == 12
MaxWins == 20
MaxTail == 3

InitZones ==
    /\ \E crashes \in 0..1, lead \in 0..MaxLead, wins \in 0..MaxWins, tail \in 0..MaxTail,
          tail_exit \in {QInt(2940), QInt(3000)}, book \in Books :
            portfolio = Seasoned(IF crashes = 0 THEN QInt(1000) ELSE QInt(0 - 200),
                                 crashes, lead, wins, tail, tail_exit, 0, QInt(5800), book)
    /\ last = [op |-> "init"]
    /\ MarketIdle

ComputeBudgetZones ==
    /\ last.op = "init"
    /\ last' = [op |-> "compute_budget_zones", zones |-> compute_budget_zones(portfolio)]
    /\ UNCHANGED <<portfolio, buffer, collector>>

NextZones == ComputeBudgetZones

SpecZones == InitZones /\ [][NextZones]_vars

(***************************************************************************)
(* SpecRisk: validate_decision over portfolios with a record, a drawdown   *)
(* and an open book, for the decisions around the test scenarios           *)
(* (price 3000, ATR 30, stop 2940, target 3120).                           *)
(***************************************************************************)
TradeDecision(symbol, action, leverage, quantity, stop_loss, take_profit, confidence) ==
    [symbol |-> symbol, action |-> action, leverage |-> leverage,
     quantity |-> quantity, stop_loss |-> stop_loss, take_profit |-> take_profit,
     confidence |-> confidence]

Leverages == {QInt(2), QInt(10)}
Quantities == {Q(1, 10), QInt(1)}
StopLosses == {Zero, QInt(2940), QInt(2980), QInt(2995), QInt(3060)}
TakeProfits == {Zero, QInt(3120), QInt(3100)}
Confidences == {Q(1, 20), Q(2, 5), Q(4, 5), Q(3, 2)}

EntryDecisions ==
    {TradeDecision(s, a, l, q, sl, tp, c) :
        s \in Symbols, a \in {LONG, SHORT}, l \in Leverages, q \in Quantities,
        sl \in StopLosses, tp \in TakeProfits, c \in Confidences}

PassDecisions ==
    {TradeDecision(s, a, l, q, Zero, Zero, c) :
        s \in Symbols, a \in {HOLD, CLOSE}, l \in Leverages \cup {QInt(1)},
        q \in Quantities \cup {Zero}, c \in {Zero, Q(4, 5)}}

\* report.timeframes[tf].atr_14 for the timeframes the report holds
Reports ==
    { [tf \in {"15m"} |-> QInt(30)],
      [tf \in {} |-> Zero],
      [tf \in {"15m", "5m", "1h"} |->
          IF tf = "15m" THEN Zero ELSE IF tf = "5m" THEN QInt(10) ELSE QInt(30)] }

Prices == {QInt(3000)}

\* records: none, 20 wins, 12 losses + 18 wins, 12 losses + 18 wins + 3 losses
Shapes == {<<0, 0, 0>>, <<0, 20, 0>>, <<12, 18, 0>>, <<12, 18, 3>>}

\* BtcLong closed at 52000/9 loses 1000/9 and at 5500 loses 250: one such trade
\* on equity 1000 puts the drawdown at exactly 0.10 and exactly 0.20
DropExits == {Q(52000, 9), QInt(5500)}

MaxDrops == 2

InitRisk ==
    /\ \E shape \in Shapes, drops \in 0..MaxDrops, drop_exit \in DropExits, book \in Books :
            portfolio = Seasoned(QInt(1000), 0, shape[1], shape[2], shape[3], QInt(2940),
                                 drops, drop_exit, book)
    /\ last = [op |-> "init"]
    /\ MarketIdle

ValidateDecision ==
    /\ last.op = "init"
    /\ \E decision \in EntryDecisions \cup PassDecisions, report \in Reports,
          current_price \in Prices :
        /\ last' = [op |-> "validate_decision",
                    decision |-> decision,
                    report |-> report,
                    current_price |-> current_price,
                    result |-> validate_decision(decision, portfolio, report, current_price)]
        /\ UNCHANGED <<portfolio, buffer, collector>>

NextRisk == ValidateDecision

SpecRisk == InitRisk /\ [][NextRisk]_vars

(***************************************************************************)
(* SpecEntry: validate_decision on LONG/SHORT decisions that fail several  *)
(* layers at once or draw on more than the free zone: portfolios with no   *)
(* record or 20 wins, at the peak or 10% / 20% below it, with up to 81% of *)
(* the budget in margin; ETH at 3000 with a 15m ATR of 30 or no ATR.       *)
(***************************************************************************)
MaxEntryDrops == 1

EntryBooks == {<<>>, <<EthLong>>, <<BtcLong>>, <<BtcLong, EthLong>>}

EntryGrid ==
    {TradeDecision(s, a, l, q, sl, tp, c) :
        s \in {ETH, SOL}, a \in {LONG, SHORT}, l \in {QInt(2), QInt(10)},
        q \in {Zero, Q(1, 10), QInt(1)},
        sl \in {Zero, QInt(2900), QInt(2940), QInt(2995), QInt(3060)},
        tp \in {Zero, QInt(3120), QInt(3100), QInt(2880)},
        c \in {Q(1, 20), Q(2, 5), Q(4, 5)}}

EntryReports == {[tf \in {"15m"} |-> QInt(30)], [tf \in {} |-> Zero]}

InitEntry ==
    /\ \E wins \in {0, guarded_min_trades}, drops \in 0..MaxEntryDrops,
          drop_exit \in DropExits, book \in EntryBooks :
            portfolio = Seasoned(QInt(1000), 0, 0, wins, 0, QInt(2940), drops, drop_exit, book)
    /\ last = [op |-> "init"]
    /\ MarketIdle

ValidateEntry ==
    /\ last.op = "init"
    /\ \E decision \in EntryGrid, report \in EntryReports :
        /\ last' = [op |-> "validate_decision",
                    decision |-> decision,
                    report |-> report,
                    current_price |-> QInt(3000),
                    result |-> validate_decision(decision, portfolio, report, QInt(3000))]
        /\ UNCHANGED <<portfolio, buffer, collector>>

NextEntry == ValidateEntry

SpecEntry == InitEntry /\ [][NextEntry]_vars

(***************************************************************************)
(* SpecLenient: validate_decision on what from_dict makes of the objects   *)
(* of a response: any number is taken as leverage or quantity, a missing   *)
(* key gets its default.  ETH at 3000 with a 15m ATR of 30.                *)
(***************************************************************************)
LenientObjects ==
    {[symbol |-> ETH, action |-> "long", stop_loss |-> QInt(2940), confidence |-> c] :
        c \in {Q(2, 5), Q(4, 5)}}
      \cup {[symbol |-> ETH, action |-> a, leverage |-> l, quantity |-> q,
             stop_loss |-> IF a = "long" THEN QInt(2940) ELSE QInt(3060),
             confidence |-> c] :
               a \in {"long", "short"},
               l \in {QInt(-2), Zero, Q(1, 2), QInt(3)},
               q \in {QInt(-1), Zero, Q(1, 10), QInt(1)},
               c \in {Q(2, 5), Q(4, 5)}}

InitLenient ==
    /\ portfolio \in {OpenAll(PortfolioState(QInt(1000)), book) : book \in EntryBooks}
    /\ last = [op |-> "init"]
    /\ MarketIdle

ValidateLenient ==
    /\ last.op = "init"
    /\ \E d \in LenientObjects :
          \E parsed \in {from_dict(d)} :
              /\ parsed.raised = ""
              /\ last' = [op |-> "validate_decision",
                          d |-> d,
                          decision |-> parsed.decision,
                          result |-> validate_decision(parsed.decision, portfolio,
                                                       [tf \in {"15m"} |-> QInt(30)],
                                                       QInt(3000))]
    /\ UNCHANGED <<portfolio, buffer, collector>>

NextLenient == ValidateLenient

SpecLenient == InitLenient /\ [][NextLenient]_vars

(***************************************************************************)
(* SpecResponse: process_response on a fresh portfolio and on one with an  *)
(* ETH long open, for response texts of a few chunks around one JSON       *)
(* document.  ETH trades at 3000 and BTC at 6000; SOL has no price yet.    *)
(***************************************************************************)
DOGE == "PERP_DOGE_USDC"

EthLongEntry ==
    [symbol |-> ETH, action |-> "long", leverage |-> QInt(2), quantity |-> Q(1, 10),
     stop_loss |-> QInt(2940), take_profit |-> QInt(3120), confidence |-> Q(4, 5)]

\* a BTC short sized far beyond the budget, its stop half an ATR away
BtcShortEntry ==
    [symbol |-> BTC, action |-> "short", leverage |-> QInt(2), quantity |-> QInt(1),
     stop_loss |-> QInt(6015), take_profit |-> QInt(5900), confidence |-> Q(4, 5)]

Entries ==
    { EthLongEntry,
      BtcShortEntry,
      [EthLongEntry EXCEPT !.symbol = DOGE],
      [symbol |-> BTC],
      [symbol |-> ETH, action |-> "BUY"],
      [symbol |-> ETH, action |-> "close"],
      [symbol |-> ETH, action |-> NULL] }

MaxDecisions == 2

MaxChunks == 3

Documents ==
    {[type |-> "array"], [type |-> "object"]}
      \cup {[type |-> "object", decisions |-> entries] :
               entries \in UNION {[1..n -> Entries] : n \in 0..MaxDecisions}}

Layouts == UNION {[1..n -> {"fence", "prose", "braces", "json"}] : n \in 1..MaxChunks}

Texts ==
    {[i \in 1..Len(layout) |->
         IF layout[i] = "json" THEN [kind |-> "json", value |-> document]
         ELSE [kind |-> layout[i]]] :
       layout \in Layouts, document \in Documents}

CycleReports == [s \in {symbols[i] : i \in 1..Len(symbols)} |-> [tf \in {"15m"} |-> QInt(30)]]

CyclePrices ==
    [s \in {symbols[i] : i \in 1..Len(symbols)} |->
        IF s = ETH THEN QInt(3000) ELSE IF s = BTC THEN QInt(6000) ELSE Zero]

InitResponse ==
    /\ portfolio \in {PortfolioState(QInt(1000)),
                      open_position(PortfolioState(QInt(1000)), EthLong)}
    /\ last = [op |-> "init"]
    /\ MarketIdle

ProcessResponse ==
    /\ last.op = "init"
    /\ \E response_text \in Texts :
        \E result \in {process_response(portfolio, response_text, CycleReports, CyclePrices)} :
            /\ portfolio' = result.portfolio
            /\ last' = [op |-> "process_response",
                        response_text |-> response_text,
                        before |-> portfolio,
                        decisions |-> result.decisions,
                        validated |-> result.validated,
                        error |-> result.error]
            /\ UNCHANGED <<buffer, collector>>

NextResponse == ProcessResponse

SpecResponse == InitResponse /\ [][NextResponse]_vars

(***************************************************************************)
(* SpecCycle: the engine over several cycles.  last.engine holds the       *)
(* pending state of the StrategyEngine, last.prepared whether              *)
(* prepare_analysis ran since the last process_response, and last.opened   *)
(* how often open_position has been called.  Entries are made at ETH 3000  *)
(* and BTC 6000; the sweeps see ETH at its target or gapped down to 900    *)
(* (a loss of 210 on the ETH long) and BTC beyond the stop of the short.   *)
(***************************************************************************)
\* self._pending_reports = {}, self._pending_prices = {}
NoPending == [pending_reports |-> <<>>, pending_prices |-> <<>>]

\* prepare_analysis: the reports and prices are stashed for process_response
prepare_analysis(engine, reports, prices) ==
    [engine EXCEPT !.pending_reports = reports, !.pending_prices = prices]

\* mutant: process_response leaves the pending state in place
CleanUp_kept(engine) == engine

\* "Clean up pending state" at the end of process_response
CleanUp(engine) == NoPending

\* the turns of _execute_decisions that reach open_position
OpenedBy(validated, prices) ==
    Cardinality({i \in 1..Len(validated) :
                    /\ validated[i].approved
                    /\ validated[i].original.action \in {LONG, SHORT}
                    /\ QGt(Get(prices, validated[i].original.symbol, Zero), Zero)})

MaxLife == 2

EthClose == [symbol |-> ETH, action |-> "close"]

\* a BTC short small enough to pass every layer as it is
BtcShortSmall == [BtcShortEntry EXCEPT !.quantity = Q(1, 10)]

CycleEntries == {EthLongEntry, BtcShortSmall, EthClose}

CycleTexts ==
    {<<[kind |-> "json", value |-> [type |-> "object", decisions |-> entries]]>> :
        entries \in UNION {[1..n -> CycleEntries] : n \in 0..MaxDecisions}}

CycleSweepPrices ==
    {[sym \in {ETH, BTC} |-> IF sym = ETH THEN e ELSE b] :
        e \in {QInt(900), QInt(3000), QInt(3120)}, b \in {QInt(6000), QInt(6100)}}

\* a new engine on a fresh portfolio, or on one that a loss of 250 on 1250
\* has brought exactly 20% below its peak
InitCycle ==
    /\ portfolio \in {PortfolioState(QInt(1000)),
                      close_position(open_position(PortfolioState(QInt(1250)), BtcLong),
                                     BtcLong, QInt(5500), "SL")}
    /\ last = [op |-> "init", engine |-> NoPending, prepared |-> FALSE,
               opened |-> Len(portfolio.closed_trades)]
    /\ MarketIdle

PrepareAnalysis ==
    /\ ~last.prepared
    /\ last' = [op |-> "prepare_analysis",
                engine |-> prepare_analysis(last.engine, CycleReports, CyclePrices),
                prepared |-> TRUE, opened |-> last.opened]
    /\ UNCHANGED <<portfolio, buffer, collector>>

CycleResponse ==
    \E response_text \in CycleTexts :
        \E result \in {process_response(portfolio, response_text,
                                        last.engine.pending_reports,
                                        last.engine.pending_prices)} :
            /\ last.opened + OpenedBy(result.validated, last.engine.pending_prices) <= MaxLife
            /\ portfolio' = result.portfolio
            /\ last' = [op |-> "process_response",
                        engine |-> CleanUp(last.engine),
                        prepared |-> FALSE,
                        was_prepared |-> last.prepared,
                        opened |-> last.opened
                                     + OpenedBy(result.validated, last.engine.pending_prices),
                        response_text |-> response_text,
                        prices |-> last.engine.pending_prices,
                        before |-> portfolio,
                        decisions |-> result.decisions,
                        validated |-> result.validated,
                        error |-> result.error]
            /\ UNCHANGED <<buffer, collector>>

CycleSweep ==
    /\ \E prices \in CycleSweepPrices :
        /\ portfolio' = check_stop_loss_take_profit(portfolio, prices)
        /\ last' = [op |-> "check_stop_loss_take_profit", engine |-> last.engine,
                    prepared |-> last.prepared, opened |-> last.opened,
                    prices |-> prices, before |-> portfolio]
    /\ UNCHANGED <<buffer, collector>>

NextCycle == PrepareAnalysis \/ CycleResponse \/ CycleSweep

SpecCycle == InitCycle /\ [][NextCycle]_vars

(***************************************************************************)
(* SpecCollector: the WebSocket thread handles messages statement by       *)
(* statement while the main thread takes snapshots and backfills; both     *)
(* take the lock of the collector.  last holds the position of each thread *)
(* and the snapshots returned so far, each with the values it had when it  *)
(* was returned.                                                           *)
(***************************************************************************)
MaxMsgs == 2

MaxSnapshots == 1

\* the messages that can arrive as the k-th; bad is the statement at which
\* the handler raises (a field float() rejects), 0 for none
Messages(k) ==
    {[topic |-> "kline", k |-> k, bad |-> 0, tf |-> tf, ts |-> ts] :
        tf \in {"5m", "1h"}, ts \in {1, 2}}
      \cup {[topic |-> topic, k |-> k, bad |-> 0] :
               topic \in {"orderbook", "bbo", "ticker", "estfundingrate", "openinterest",
                          "markprice", "indexprice"}}
      \cup {[topic |-> "orderbook", k |-> k, bad |-> 2], [topic |-> "bbo", k |-> k, bad |-> 3]}
      \cup {[topic |-> "trade", k |-> k, bad |-> 0, side |-> side] : side \in {"BUY", "SELL"}}

\* the candles the REST endpoint returns, oldest first
BackfillRows == <<Candle(30, 31, 29, 30, 3, 1), Candle(40, 41, 39, 40, 4, 2)>>

\* what a caller reads from a snapshot
Contents(heap, snapshot) ==
    [klines |-> [tf \in DOMAIN snapshot.klines |-> BufferAt(heap, snapshot.klines[tf])],
     orderbook |-> [bids |-> heap[heap[snapshot.orderbook].bids],
                    asks |-> heap[heap[snapshot.orderbook].asks],
                    timestamp |-> heap[snapshot.orderbook].timestamp],
     bbo |-> heap[snapshot.bbo],
     funding |-> heap[snapshot.funding],
     open_interest |-> heap[snapshot.open_interest],
     traders_oi |-> heap[snapshot.traders_oi],
     volume_delta |-> heap[snapshot.volume_delta],
     ticker |-> heap[snapshot.ticker],
     mark_price |-> snapshot.mark_price,
     index_price |-> snapshot.index_price]

InitCollector ==
    /\ portfolio = PortfolioState(QInt(1000))
    /\ buffer = KlineBuffer(MaxSize)
    /\ collector = DataCollector
    /\ last = [op |-> "init", received |-> 0, ws |-> "idle", msg |-> [topic |-> "none"],
               at |-> 0, main |-> "idle", klines |-> <<>>, snapshots |-> <<>>]

\* _on_message dispatches to a handler, which enters "with self._lock"
Receive ==
    /\ last.ws = "idle"
    /\ collector.lock = "free"
    /\ last.received < MaxMsgs
    /\ \E msg \in Messages(last.received + 1) :
          last' = [last EXCEPT !.op = "receive", !.received = @ + 1, !.ws = "handling",
                               !.msg = msg, !.at = 1]
    /\ collector' = [collector EXCEPT !.lock = "ws"]
    /\ UNCHANGED <<portfolio, buffer>>

HandlerStep ==
    /\ last.ws = "handling"
    /\ last.at <= Len(Statements(last.msg))
    /\ last.at # last.msg.bad
    /\ collector' = Execute(collector, Statements(last.msg)[last.at])
    /\ last' = [last EXCEPT !.op = "step", !.at = @ + 1]
    /\ UNCHANGED <<portfolio, buffer>>

\* the handler returns, or raises at its bad statement; either way the lock
\* is released (_on_message logs the exception)
HandlerExit ==
    /\ last.ws = "handling"
    /\ last.at > Len(Statements(last.msg)) \/ last.at = last.msg.bad
    /\ collector' = [collector EXCEPT !.lock = "free"]
    /\ last' = [last EXCEPT !.op = "exit", !.ws = "idle"]
    /\ UNCHANGED <<portfolio, buffer>>

\* backfill_klines, one timeframe: load_bulk under the lock
Backfill ==
    /\ last.main = "idle"
    /\ collector.lock = "free"
    /\ last.received < MaxMsgs
    /\ \E tf \in {"5m", "15m"} :
          collector' = Backfilled(collector, tf, BackfillRows)
    /\ last' = [last EXCEPT !.op = "backfill", !.received = @ + 1]
    /\ UNCHANGED <<portfolio, buffer>>

\* get_snapshot enters "with self._lock"
SnapshotEnter ==
    /\ last.main = "idle"
    /\ collector.lock = "free"
    /\ Len(last.snapshots) < MaxSnapshots
    /\ collector' = [collector EXCEPT !.lock = "main"]
    /\ last' = [last EXCEPT !.op = "enter", !.main = "locked"]
    /\ UNCHANGED <<portfolio, buffer>>

SnapshotCopyKlines ==
    /\ last.main = "locked"
    /\ LET copied == CopyKlines(collector.heap, collector, <<>>, Timeframes)
       IN  /\ collector' = [collector EXCEPT !.heap = copied.heap]
           /\ last' = [last EXCEPT !.op = "copy", !.main = "copied", !.klines = copied.klines]
    /\ UNCHANGED <<portfolio, buffer>>

SnapshotReturn ==
    /\ last.main = "copied"
    /\ LET made == MarketSnapshot(collector, last.klines)
       IN  /\ collector' = [collector EXCEPT !.heap = made.heap, !.lock = "free"]
           /\ last' = [last EXCEPT !.op = "return", !.main = "idle", !.klines = <<>>,
                          !.snapshots = Append(@, [snapshot |-> made.snapshot,
                                                   taken |-> Contents(made.heap, made.snapshot)])]
    /\ UNCHANGED <<portfolio, buffer>>

NextCollector ==
    \/ Receive
    \/ HandlerStep
    \/ HandlerExit
    \/ Backfill
    \/ SnapshotEnter
    \/ SnapshotCopyKlines
    \/ SnapshotReturn

SpecCollector == InitCollector /\ [][NextCollector]_vars

(***************************************************************************)
(* Properties                                                              *)
(***************************************************************************)
(* SpecKline: one KlineBuffer driven by append and load_bulk.  last keeps  *)
(* the call, the buffer before it and the log of the candles that arrived. *)
(***************************************************************************)
MaxOps == 3

Timestamps == 1..(MaxSize + 1)

\* two candles that differ in every value, at each timestamp
Candles ==
    {Candle(10, 12, 9, 11, 5, ts) : ts \in Timestamps}
        \cup {Candle(20, 23, 19, 22, 7, ts) : ts \in Timestamps}

\* the timestamps of T in increasing order
RECURSIVE Ascending(_)
Ascending(T) ==
    IF T = {} THEN <<>>
    ELSE LET lo == CHOOSE t \in T : \A u \in T : t <= u
         IN  <<lo>> \o Ascending(T \ {lo})

\* histories as the REST endpoint returns them: oldest first, one candle per
\* timestamp
Histories ==
    {[i \in 1..Cardinality(T) |-> Candle(30, 31, 29, 30, 3, Ascending(T)[i])] :
        T \in SUBSET Timestamps}

\* the candles in arrival order; a candle that repeats the timestamp of the
\* one before it revises that candle
Logged(arrived, k) ==
    IF arrived # <<>> /\ arrived[Len(arrived)].timestamp = k.timestamp
    THEN [arrived EXCEPT ![Len(arrived)] = k]
    ELSE Append(arrived, k)

InitKline ==
    /\ portfolio = PortfolioState(QInt(1000))
    /\ buffer = KlineBuffer(MaxSize)
    /\ collector = DataCollector
    /\ last = [op |-> "init", n |-> 0, arrived |-> <<>>, appends_only |-> TRUE]

AppendCandle ==
    /\ last.n < MaxOps
    /\ \E k \in Candles :
        /\ buffer' = append(buffer, k)
        /\ last' = [op |-> "append", n |-> last.n + 1, candle |-> k, before |-> buffer,
                    arrived |-> Logged(last.arrived, k),
                    appends_only |-> last.appends_only]
    /\ UNCHANGED <<portfolio, collector>>

LoadBulk ==
    /\ last.n < MaxOps
    /\ \E rows \in Histories :
        /\ buffer' = load_bulk(buffer, rows)
        /\ last' = [op |-> "load_bulk", n |-> last.n + 1, rows |-> rows, before |-> buffer,
                    arrived |-> rows, appends_only |-> FALSE]
    /\ UNCHANGED <<portfolio, collector>>

NextKline == AppendCandle \/ LoadBulk

SpecKline == InitKline /\ [][NextKline]_vars

(***************************************************************************)
(* SpecSweep: check_stop_loss_take_profit on a portfolio of 1000 with a    *)
(* book of open positions, for the prices the collectors report.           *)
(***************************************************************************)
\* an ETH LONG opened without a take-profit (take_profit 0 passes validation)
EthLongNoTp ==
    Position(ETH, LONG, QInt(3000), Q(1, 10), QInt(5), QInt(2940), Zero, QInt(60))

\* an ETH LONG whose take-profit lies below its stop-loss (the risk/reward
\* check takes the distance to the target, not its side)
EthLongLowTp ==
    Position(ETH, LONG, QInt(3000), Q(1, 10), QInt(5), QInt(2940), QInt(2880), QInt(60))

SweepPositions == {EthLong, EthShort, BtcLong, EthLongNoTp, EthLongLowTp}

\* sequences of distinct positions, at most n long
RECURSIVE Arrangements(_, _)
Arrangements(P, n) ==
    IF n = 0 THEN {<<>>}
    ELSE {<<>>} \cup {<<p>> \o tl : p \in P, tl \in Arrangements(P, n - 1)}

DistinctBooks ==
    {b \in Arrangements(SweepPositions, MaxOpen) :
        \A i, j \in 1..Len(b) : i # j => b[i] # b[j]}

SweepPrices ==
    {[sym \in D |-> IF sym = ETH THEN e ELSE b] :
        D \in SUBSET Symbols,
        e \in {QInt(2900), QInt(2940), QInt(3000), QInt(3060), QInt(3120)},
        b \in {QInt(5900), QInt(6000), QInt(6200)}}

InitSweep ==
    /\ \E book \in DistinctBooks : portfolio = OpenAll(PortfolioState(QInt(1000)), book)
    /\ last = [op |-> "init"]
    /\ MarketIdle

CheckStopLossTakeProfit ==
    /\ last.op = "init"
    /\ \E prices \in SweepPrices :
        /\ portfolio' = check_stop_loss_take_profit(portfolio, prices)
        /\ last' = [op |-> "check_stop_loss_take_profit", prices |-> prices,
                    before |-> portfolio]
    /\ UNCHANGED <<buffer, collector>>

NextSweep == CheckStopLossTakeProfit

SpecSweep == InitSweep /\ [][NextSweep]_vars

(***************************************************************************)
(* main.py: TradingSystem.check_stops.  Here collector holds one           *)
(* DataCollector per symbol (self.collectors); a handler and current_price *)
(* both run under the collector's lock, so each is one step.               *)
(***************************************************************************)
\* models/market.py: BBO.mid_price
mid_price(bbo) ==
    IF bbo.bid_price = 0 \/ bbo.ask_price = 0 THEN Zero
    ELSE Q(bbo.bid_price + bbo.ask_price, 2)

\* DataCollector.current_price: mark > mid > last 5m close > 0.0
current_price(c) ==
    LET bbo == c.heap[c._bbo]
        buf == BufferAt(c.heap, c._klines["5m"])
    IN  IF c._mark_price > 0 THEN QInt(c._mark_price)
        ELSE IF QGt(mid_price(bbo), Zero) THEN mid_price(bbo)
        ELSE IF size(buf) > 0 THEN QInt(buf.close[Len(buf.close)])
        ELSE Zero

\* the statements of a handler run to the end on the collector c
RECURSIVE Handled(_, _)
Handled(c, statements) ==
    IF statements = <<>> THEN c
    ELSE Handled(Execute(c, Head(statements)), Tail(statements))

\* prices = {symbol: collector.current_price for ...}, then the sweep
check_stops(pf, collectors) ==
    check_stop_loss_take_profit(pf, [symbol \in DOMAIN collectors |->
                                        current_price(collectors[symbol])])

\* the messages of the price feeds; a mark-price message without a price
\* sets the mark price to 0
StopsMessages ==
    {[topic |-> "markprice", k |-> k, bad |-> 0] : k \in {0, 2950, 3100}}
      \cup {[topic |-> "bbo", k |-> k, bad |-> 0] : k \in {0, 2950}}
      \cup {[topic |-> "kline", k |-> 295, bad |-> 0, tf |-> "5m", ts |-> 1]}

StopsBooks == {<<>>, <<EthLong>>, <<EthShort>>, <<BtcLong, EthLong>>}

\* the positions were opened at the mark prices the collectors then held
InitStops ==
    /\ \E book \in StopsBooks : portfolio = OpenAll(PortfolioState(QInt(1000)), book)
    /\ last = [op |-> "init"]
    /\ buffer = KlineBuffer(MaxSize)
    /\ collector = [symbol \in Symbols |->
                       Handled(DataCollector,
                               Statements([topic |-> "markprice", bad |-> 0,
                                           k |-> IF symbol = ETH THEN 3000 ELSE 6000]))]

\* _on_message for the collector of one symbol
OnMessage ==
    /\ last.op \in {"init", "message"}
    /\ \E symbol \in Symbols, msg \in StopsMessages :
          collector' = [collector EXCEPT ![symbol] = Handled(@, Statements(msg))]
    /\ last' = [op |-> "message"]
    /\ UNCHANGED <<portfolio, buffer>>

CheckStops ==
    /\ last.op \in {"init", "message"}
    /\ portfolio' = check_stops(portfolio, collector)
    /\ last' = [op |-> "check_stops",
                prices |-> [symbol \in Symbols |-> current_price(collector[symbol])],
                before |-> portfolio]
    /\ UNCHANGED <<buffer, collector>>

NextStops == OnMessage \/ CheckStops

SpecStops == InitStops /\ [][NextStops]_vars

(***************************************************************************)
(* SpecTrades: one collector that receives trade messages and is asked for *)
(* snapshots in between.  last.arrived is the list of the trades received, *)
(* in arrival order.                                                       *)
(***************************************************************************)
MaxTradeMsgs == 3

\* get_snapshot from "with self._lock" to the return
get_snapshot(c) ==
    CHOOSE result \in
        {[collector |-> [c EXCEPT !.heap = made.heap], snapshot |-> made.snapshot] :
            made \in {MarketSnapshot([c EXCEPT !.heap = copied.heap], copied.klines) :
                         copied \in {CopyKlines(c.heap, c, <<>>, Timeframes)}}} : TRUE

InitTrades ==
    /\ portfolio = PortfolioState(QInt(1000))
    /\ last = [op |-> "init", arrived |-> <<>>]
    /\ MarketIdle

\* _handle_trade for the next trade message
HandleTrade ==
    /\ Len(last.arrived) < MaxTradeMsgs
    /\ \E side \in {"BUY", "SELL"} :
          \E msg \in {[topic |-> "trade", k |-> Len(last.arrived) + 1, bad |-> 0,
                       side |-> side]} :
              /\ collector' = Handled(collector, Statements(msg))
              /\ last' = [op |-> "trade",
                          arrived |-> Append(last.arrived, Statements(msg)[1].trade)]
    /\ UNCHANGED <<portfolio, buffer>>

GetSnapshot ==
    /\ last.op # "get_snapshot"
    /\ \E result \in {get_snapshot(collector)} :
          /\ collector' = result.collector
          /\ last' = [op |-> "get_snapshot", arrived |-> last.arrived,
                      taken |-> Contents(result.collector.heap, result.snapshot)]
    /\ UNCHANGED <<portfolio, buffer>>

NextTrades == HandleTrade \/ GetSnapshot

SpecTrades == InitTrades /\ [][NextTrades]_vars

(***************************************************************************)
(* SpecIngest: _on_message from the raw message to the handler.  A raw     *)
(* message is [kind |-> "malformed"] or [kind |-> "json", value |-> v]     *)
(* where v.type is the JSON type; an object has members, its topic and     *)
(* data among them.  A topic string is the sequence of its pieces, so that *)
(* "PERP_ETH_USDC@orderbookupdate" is <<"PERP_ETH_USDC", "@orderbook",     *)
(* "update">>, and "x in topic" asks for a run of pieces.  A data object   *)
(* carries the number k in every field except those of non_numeric, which  *)
(* float() rejects.                                                        *)
(***************************************************************************)
MaxRaw == 2

\* sub in s, for two strings
In(sub, s) == \E i \in 0..(Len(s) - Len(sub)) : SubSeq(s, i + 1, i + Len(sub)) = sub

\* mutant: the update stream is read as the orderbook stream
Route_update_as_orderbook(topic) ==
    IF In(<<"@kline_5m">>, topic) THEN [topic |-> "kline", tf |-> "5m"]
    ELSE IF In(<<"@kline_15m">>, topic) THEN [topic |-> "kline", tf |-> "15m"]
    ELSE IF In(<<"@kline_1h">>, topic) THEN [topic |-> "kline", tf |-> "1h"]
    ELSE IF In(<<"@orderbook">>, topic) THEN [topic |-> "orderbook"]
    ELSE IF In(<<"@bbo">>, topic) THEN [topic |-> "bbo"]
    ELSE IF In(<<"@trade">>, topic) THEN [topic |-> "trade"]
    ELSE IF In(<<"@ticker">>, topic) THEN [topic |-> "ticker"]
    ELSE IF In(<<"@estfundingrate">>, topic) THEN [topic |-> "estfundingrate"]
    ELSE IF In(<<"@openinterest">>, topic) THEN [topic |-> "openinterest"]
    ELSE IF In(<<"@markprice">>, topic) THEN [topic |-> "markprice"]
    ELSE IF In(<<"@indexprice">>, topic) THEN [topic |-> "indexprice"]
    ELSE [topic |-> "none"]

\* the if/elif chain of _on_message: the handler of a topic string
Route(topic) ==
    IF In(<<"@kline_5m">>, topic) THEN [topic |-> "kline", tf |-> "5m"]
    ELSE IF In(<<"@kline_15m">>, topic) THEN [topic |-> "kline", tf |-> "15m"]
    ELSE IF In(<<"@kline_1h">>, topic) THEN [topic |-> "kline", tf |-> "1h"]
    ELSE IF In(<<"@orderbook">>, topic) /\ ~In(<<"@orderbook", "update">>, topic)
         THEN [topic |-> "orderbook"]
    ELSE IF In(<<"@bbo">>, topic) THEN [topic |-> "bbo"]
    ELSE IF In(<<"@trade">>, topic) THEN [topic |-> "trade"]
    ELSE IF In(<<"@ticker">>, topic) THEN [topic |-> "ticker"]
    ELSE IF In(<<"@estfundingrate">>, topic) THEN [topic |-> "estfundingrate"]
    ELSE IF In(<<"@openinterest">>, topic) THEN [topic |-> "openinterest"]
    ELSE IF In(<<"@markprice">>, topic) THEN [topic |-> "markprice"]
    ELSE IF In(<<"@indexprice">>, topic) THEN [topic |-> "indexprice"]
    ELSE [topic |-> "none"]

\* the keys of data each statement of a handler passes to float()
Reads(handler) ==
    CASE handler = "kline" -> <<{"open", "high", "low", "close", "volume", "startTime"}>>
      [] handler = "orderbook" -> <<{"bids"}, {"asks"}, {"ts"}>>
      [] handler = "bbo" -> <<{"bid"}, {"bidSize"}, {"ask"}, {"askSize"}, {"timestamp"}>>
      [] handler = "trade" -> <<{"price", "size", "timestamp"}, {}>>
      [] handler = "ticker" -> <<{"open"}, {"high"}, {"low"}, {"close"}, {"volume"}, {}, {}>>
      [] handler = "estfundingrate" ->
           <<{"estFundingRate"}, {"lastFundingRate"}, {"nextFundingTime"}, {}>>
      [] handler = "openinterest" -> <<{"openInterest"}, {}>>
      [] handler = "markprice" -> <<{"price"}>>
      [] handler = "indexprice" -> <<{"price"}>>

\* the statement at which the handler raises on data, 0 for none: data.get
\* fails at once on anything but an object, float() on a non-numeric field
RaisesAt(handler, data) ==
    IF data.type # "object" THEN 1
    ELSE LET at == {i \in 1..Len(Reads(handler)) :
                        Reads(handler)[i] \cap data.non_numeric # {}}
         IN  IF at = {} THEN 0 ELSE CHOOSE i \in at : \A j \in at : i <= j

\* the message a handler is given, as Statements reads it
Given(handler, data) ==
    [topic |-> handler.topic, tf |-> Get(handler, "tf", "5m"),
     k |-> Get(data, "k", 0), ts |-> Get(data, "k", 0), side |-> Get(data, "side", "BUY"),
     bad |-> RaisesAt(handler.topic, data)]

\* the handler of msg run until it returns or raises
Interrupted(c, msg) ==
    IF msg.bad = 0 THEN Handled(c, Statements(msg))
    ELSE Handled(c, SubSeq(Statements(msg), 1, msg.bad - 1))

\* _on_message: the collector afterwards and the exception that reaches the
\* caller, "" for none
_on_message(c, raw_message) ==
    IF raw_message.kind # "json" THEN [collector |-> c, raised |-> ""]
    ELSE IF raw_message.value.type # "object"
    THEN [collector |-> c, raised |-> "AttributeError"]
    ELSE LET msg == raw_message.value.members
             topic == Get(msg, "topic", [type |-> "string", value |-> <<>>])
             data == Get(msg, "data", [type |-> NULL])
         IN  IF data.type = NULL THEN [collector |-> c, raised |-> ""]
             ELSE IF topic.type # "string" THEN [collector |-> c, raised |-> ""]
             ELSE IF Route(topic.value).topic = "none" THEN [collector |-> c, raised |-> ""]
             ELSE [collector |-> Interrupted(c, Given(Route(topic.value), data)),
                   raised |-> ""]

\* the topics of the subscriptions, of the update stream, and of others
TopicStrings ==
    {<<"PERP_ETH_USDC", marker>> :
        marker \in {"@kline_5m", "@kline_15m", "@kline_1h", "@orderbook", "@bbo", "@trade",
                    "@ticker", "@estfundingrate", "@openinterest", "@markprice"}}
      \cup {<<"SPOT_ETH_USDC", "@indexprice">>, <<"PERP_ETH_USDC", "@orderbook", "update">>,
            <<"PERP_ETH_USDC", "@bbo", "@trade">>, <<"account">>, <<>>}

RawData(k) ==
    {[type |-> "object", k |-> k, side |-> "SELL", non_numeric |-> fields] :
        fields \in {{}, {"ask"}, {"asks"}, {"high"}, {"lastFundingRate"}, {"size"}}}
      \cup {[type |-> "number"], [type |-> NULL]}

RawMessages(k) ==
    {[kind |-> "malformed"]}
      \cup {[kind |-> "json", value |-> [type |-> type]] :
               type \in {"array", "number", "string", NULL}}
      \cup {[kind |-> "json", value |-> [type |-> "object", members |-> members]] :
               members \in {[topic |-> [type |-> "string", value |-> topic], data |-> data] :
                               topic \in TopicStrings, data \in RawData(k)}
                             \cup {[data |-> data] : data \in RawData(k)}
                             \cup {[topic |-> [type |-> "number"], data |-> data] :
                                      data \in RawData(k)}
                             \cup {[topic |-> [type |-> "string", value |-> topic]] :
                                      topic \in TopicStrings}}

InitIngest ==
    /\ portfolio = PortfolioState(QInt(1000))
    /\ last = [op |-> "init", received |-> 0]
    /\ MarketIdle

\* the transport calls _on_message; an exception ends up in the transport
ReceiveRaw ==
    /\ last.received < MaxRaw
    /\ \E raw_message \in RawMessages(last.received + 1) :
          \E result \in {_on_message(collector, raw_message)} :
              /\ collector' = result.collector
              /\ last' = [op |-> "on_message", received |-> last.received + 1,
                          raw_message |-> raw_message, raised |-> result.raised,
                          before |-> collector]
    /\ UNCHANGED <<portfolio, buffer>>

\* the cycle driver reads the collector in between
SnapshotRaw ==
    /\ last.op = "on_message"
    /\ \E result \in {get_snapshot(collector)} :
          /\ collector' = result.collector
          /\ last' = [op |-> "get_snapshot", received |-> last.received,
                      raw_message |-> last.raw_message, raised |-> last.raised,
                      before |-> last.before,
                      taken |-> Contents(result.collector.heap, result.snapshot)]
    /\ UNCHANGED <<portfolio, buffer>>

NextIngest == ReceiveRaw \/ SnapshotRaw

SpecIngest == InitIngest /\ [][NextIngest]_vars

(***************************************************************************)
(* SpecLock: the lock of one collector between the WebSocket thread, which *)
(* runs the handlers, and the main thread, which runs get_snapshot,        *)
(* current_price and backfill_klines.  Every operation is the sequence of  *)
(* its instructions; "with self._lock" is an acquire, which waits until    *)
(* the lock is free, and a release, which an exception in the block still  *)
(* reaches.  last.ws and last.main are the two threads: the operation each *)
(* is in, the instruction it is at, and whether it has had to wait for the *)
(* lock.  get_snapshot copies the buffers one timeframe at a time and then *)
(* builds the snapshot; the snapshot itself is not kept here.              *)
(***************************************************************************)
MaxLockMsgs == 2

MaxCalls == 1

Threads == {"ws", "main"}

Idle == [op |-> "idle", at |-> 0, msg |-> [topic |-> "none"], waited |-> FALSE]

\* the with block around body
WithLock(body) == <<[do |-> "acquire"]>> \o body \o <<[do |-> "release"]>>

\* the instructions of an operation, in the order they run
Code(op, msg) ==
    CASE op = "handler" ->
           WithLock([i \in 1..Len(Statements(msg)) |->
                        [do |-> "statement", s |-> Statements(msg)[i],
                         raises |-> i = msg.bad]])
      [] op = "get_snapshot" ->
           WithLock([i \in 1..Len(Timeframes) |-> [do |-> "copy", tf |-> Timeframes[i]]]
                      \o <<[do |-> "build"]>>)
      [] op = "current_price" -> WithLock(<<[do |-> "read"]>>)
      [] op = "backfill_klines" ->
           <<[do |-> "fetch"]>> \o WithLock(<<[do |-> "load_bulk", tf |-> "5m"]>>)
             \o <<[do |-> "fetch"]>> \o WithLock(<<[do |-> "load_bulk", tf |-> "15m"]>>)

Instr(thread) == Code(thread.op, thread.msg)[thread.at]

AtAcquire(thread) == thread.op # "idle" /\ Instr(thread).do = "acquire"

\* mutant: an exception leaves the block without the release
RaiseTarget_skips_release(code, at) ==
    1 + CHOOSE i \in at..Len(code) :
            code[i].do = "release" /\ \A j \in at..(i - 1) : code[j].do # "release"

\* where an exception raised at instruction at continues: the release of the
\* with block it is in
RaiseTarget(code, at) ==
    CHOOSE i \in at..Len(code) :
        code[i].do = "release" /\ \A j \in at..(i - 1) : code[j].do # "release"

\* the thread at instruction at, or returned when the code has ended there
Moved(thread, at) ==
    IF at > Len(Code(thread.op, thread.msg)) THEN Idle ELSE [thread EXCEPT !.at = at]

\* a thread that stands at an acquire while the lock is held has waited
Observed(threads, lock) ==
    [n \in DOMAIN threads |->
        IF n \in Threads /\ AtAcquire(threads[n]) /\ lock # "free"
        THEN [threads[n] EXCEPT !.waited = TRUE] ELSE threads[n]]

LockMessages(k) ==
    {[topic |-> "bbo", k |-> k, bad |-> bad] : bad \in {0, 3}}
      \cup {[topic |-> "markprice", k |-> k, bad |-> bad] : bad \in {0, 1}}

InitLock ==
    /\ portfolio = PortfolioState(QInt(1000))
    /\ last = [op |-> "init", ws |-> Idle, main |-> Idle, received |-> 0, calls |-> 0]
    /\ MarketIdle

\* the transport delivers a message and _on_message calls its handler
CallHandler ==
    /\ last.ws.op = "idle"
    /\ last.received < MaxLockMsgs
    /\ \E msg \in LockMessages(last.received + 1) :
          last' = Observed([last EXCEPT !.op = "call", !.received = @ + 1,
                                        !.ws = [Idle EXCEPT !.op = "handler", !.at = 1,
                                                            !.msg = msg]],
                           collector.lock)
    /\ UNCHANGED <<portfolio, buffer, collector>>

\* the cycle driver calls into the collector
CallDriver ==
    /\ last.main.op = "idle"
    /\ last.calls < MaxCalls
    /\ \E op \in {"get_snapshot", "current_price", "backfill_klines"} :
          last' = Observed([last EXCEPT !.op = "call", !.calls = @ + 1,
                                        !.main = [Idle EXCEPT !.op = op, !.at = 1]],
                           collector.lock)
    /\ UNCHANGED <<portfolio, buffer, collector>>

\* Lock.acquire returns once the lock is free
Acquire(n) ==
    /\ AtAcquire(last[n])
    /\ collector.lock = "free"
    /\ collector' = [collector EXCEPT !.lock = n]
    /\ last' = Observed([last EXCEPT !.op = "acquire", ![n] = Moved(@, @.at + 1)], n)
    /\ UNCHANGED <<portfolio, buffer>>

\* Lock.release at the end of the with block
Release(n) ==
    /\ last[n].op # "idle"
    /\ Instr(last[n]).do = "release"
    /\ collector' = [collector EXCEPT !.lock = "free"]
    /\ last' = Observed([last EXCEPT !.op = "release", ![n] = Moved(@, @.at + 1)], "free")
    /\ UNCHANGED <<portfolio, buffer>>

\* one instruction outside the lock's own
Run(n) ==
    /\ last[n].op # "idle"
    /\ LET thread == last[n]
           instr == Instr(thread)
           code == Code(thread.op, thread.msg)
       IN  /\ instr.do \notin {"acquire", "release"}
           /\ collector' =
                 CASE instr.do = "statement" ->
                        IF instr.raises THEN collector ELSE Execute(collector, instr.s)
                   [] instr.do = "copy" ->
                        [collector EXCEPT !.heap =
                            CopyKlines(collector.heap, collector, <<>>, <<instr.tf>>).heap]
                   [] instr.do = "build" ->
                        [collector EXCEPT !.heap = MarketSnapshot(collector, <<>>).heap]
                   [] instr.do = "load_bulk" -> Backfilled(collector, instr.tf, BackfillRows)
                   [] OTHER -> collector
           /\ last' = Observed([last EXCEPT !.op = "run", ![n] =
                                   IF instr.do = "statement" /\ instr.raises
                                   THEN Moved(thread, RaiseTarget(code, thread.at))
                                   ELSE Moved(thread, thread.at + 1)],
                               collector.lock)
    /\ UNCHANGED <<portfolio, buffer>>

NextLock ==
    \/ CallHandler
    \/ CallDriver
    \/ \E n \in Threads : Acquire(n)
    \/ \E n \in Threads : Release(n)
    \/ \E n \in Threads : Run(n)

SpecLock == InitLock /\ [][NextLock]_vars

\* the next instruction of thread n
Step(n) == Acquire(n) \/ Release(n) \/ Run(n)

\* a thread that can run does, and an acquire on a free lock returns
SpecLockLive == SpecLock /\ WF_vars(Step("ws")) /\ WF_vars(Step("main"))

(***************************************************************************)
(* indicators.py: rsi.  An array is a sequence, index i of the source      *)
(* being index i + 1 here; nan is the one value that is no number.         *)
(***************************************************************************)
nan == <<0, 0>>

\* np.full(n, np.nan)
RECURSIVE full(_, _)
full(n, fill_value) == IF n = 0 THEN <<>> ELSE <<fill_value>> \o full(n - 1, fill_value)

\* np.diff(close)
RECURSIVE diff(_)
diff(close) ==
    IF Len(close) < 2 THEN <<>>
    ELSE <<QSub(close[2], close[1])>> \o diff(Tail(close))

\* np.where(deltas > 0, deltas, 0.0) and np.where(deltas < 0, -deltas, 0.0)
RECURSIVE gains(_)
gains(deltas) ==
    IF deltas = <<>> THEN <<>>
    ELSE <<IF QGt(Head(deltas), Zero) THEN Head(deltas) ELSE Zero>> \o gains(Tail(deltas))

RECURSIVE losses(_)
losses(deltas) ==
    IF deltas = <<>> THEN <<>>
    ELSE <<IF QLt(Head(deltas), Zero) THEN QSub(Zero, Head(deltas)) ELSE Zero>>
           \o losses(Tail(deltas))

RECURSIVE sum(_)
sum(a) == IF a = <<>> THEN Zero ELSE QAdd(Head(a), sum(Tail(a)))

\* np.mean of a non-empty array
mean(a) == QDiv(sum(a), QInt(Len(a)))

\* mutant: the ratio itself, as a percentage
RsiOf_ratio(avg_gain, avg_loss) ==
    IF avg_loss = Zero THEN QInt(100)
    ELSE QMul(QInt(100), QDiv(avg_gain, avg_loss))

\* the value stored for a pair of averages
RsiOf(avg_gain, avg_loss) ==
    IF avg_loss = Zero THEN QInt(100)
    ELSE QSub(QInt(100), QDiv(QInt(100), QAdd(QInt(1), QDiv(avg_gain, avg_loss))))

\* Wilder's smoothing of one average with the value at index i
Smoothed(avg, period, value) ==
    QDiv(QAdd(QMul(avg, QInt(period - 1)), value), QInt(period))

\* the loop for i in range(period, len(deltas)); result holds the entries
\* up to index i
RECURSIVE Wilder(_, _, _, _, _, _, _)
Wilder(up, down, period, i, avg_gain, avg_loss, result) ==
    IF i >= Len(up) THEN result
    ELSE CHOOSE rest \in
             {Wilder(up, down, period, i + 1, avg[1], avg[2],
                     Append(result, RsiOf(avg[1], avg[2]))) :
                 avg \in {<<Smoothed(avg_gain, period, up[i + 1]),
                            Smoothed(avg_loss, period, down[i + 1])>>}} : TRUE

rsi(close, period) ==
    IF Len(close) < period + 1 THEN full(Len(close), nan)
    ELSE LET deltas == diff(close)
             avg_gain == mean(SubSeq(gains(deltas), 1, period))
             avg_loss == mean(SubSeq(losses(deltas), 1, period))
         IN  Wilder(gains(deltas), losses(deltas), period, period, avg_gain, avg_loss,
                    Append(full(period, nan), RsiOf(avg_gain, avg_loss)))

(***************************************************************************)
(* SpecRsi: rsi over every close sequence of up to MaxCloses prices, for   *)
(* the periods 1..MaxPeriod.                                               *)
(***************************************************************************)
MaxCloses == 5

MaxPeriod == 3

ClosePrices == {QInt(1), QInt(2), QInt(4)}

InitRsi ==
    /\ portfolio = PortfolioState(QInt(1000))
    /\ \E n \in 1..MaxCloses, period \in 1..MaxPeriod :
          \E close \in [1..n -> ClosePrices] :
              last = [op |-> "init", close |-> close, period |-> period]
    /\ MarketIdle

Rsi ==
    /\ last.op = "init"
    /\ last' = [op |-> "rsi", close |-> last.close, period |-> last.period,
                result |-> rsi(last.close, last.period)]
    /\ UNCHANGED <<portfolio, buffer, collector>>

NextRsi == Rsi

SpecRsi == InitRsi /\ [][NextRsi]_vars

(***************************************************************************)
RECURSIVE SumPnl(_)
SumPnl(trades) ==
    IF trades = <<>> THEN Zero ELSE QAdd(Head(trades).pnl, SumPnl(Tail(trades)))

\* C1: equity conservation.  In every state reached from a fresh portfolio by
\* open_position / close_position, current_budget - initial_budget is the sum
\* of pnl over closed_trades, and open_position leaves current_budget alone.
C1_EquityConservation ==
    /\ [](QSub(portfolio.current_budget, portfolio.initial_budget)
            = SumPnl(portfolio.closed_trades))
    /\ [][last'.op = "open_position"
            => portfolio'.current_budget = portfolio.current_budget]_vars

\* a position opened after a trade was closed with a non-zero pnl
C1_Witness ==
    /\ last.op = "open_position"
    /\ portfolio.closed_trades # <<>>
    /\ portfolio.current_budget # portfolio.initial_budget

\* C2: peak_budget is a high-water mark.  peak_budget >= current_budget in
\* every reachable state and no operation lowers peak_budget.
C2_PeakHighWater ==
    /\ [](QGe(portfolio.peak_budget, portfolio.current_budget))
    /\ [][QGe(portfolio'.peak_budget, portfolio.peak_budget)]_vars

\* the peak was raised by a win and equity has since fallen below it
C2_Witness ==
    /\ QGt(portfolio.peak_budget, portfolio.initial_budget)
    /\ QLt(portfolio.current_budget, portfolio.peak_budget)

Validated == last.op = "validate_decision"

EntryValidated == Validated /\ last.decision.action \in {LONG, SHORT}

EntryApproved == EntryValidated /\ last.result.approved

HasReason(r) ==
    \E i \in 1..Len(last.result.rejection_reasons) : last.result.rejection_reasons[i] = r

\* the decision of tests/test_risk_manager.py::test_low_confidence_caps_leverage
LowConfidenceLong ==
    TradeDecision(ETH, LONG, QInt(10), Q(1, 10), QInt(2940), QInt(3120), Q(2, 5))

\* C3: every approved LONG/SHORT has margin_required <= the accessible budget
\* computed for the portfolio, and total_margin_in_use + margin_required
\* <= 0.80 x current_budget.
C3_MarginWithinBudget ==
    EntryApproved =>
        /\ QLe(last.result.margin_required, compute_budget_zones(portfolio).accessible)
        /\ QLe(QAdd(total_margin_in_use(portfolio), last.result.margin_required),
               QMul(Q(80, 100), portfolio.current_budget))

\* an approval whose margin was cut down to what the exposure cap leaves
C3_Witness ==
    /\ EntryApproved
    /\ portfolio.open_positions # <<>>
    /\ QAdd(total_margin_in_use(portfolio), last.result.margin_required)
          = QMul(Q(80, 100), portfolio.current_budget)

\* C4: every approved LONG/SHORT has stop_loss > 0, strictly below the price
\* for LONG and strictly above it for SHORT, and with a positive ATR available
\* 0.5 <= |current_price - stop_loss| / ATR <= 3.0.
C4_StopLossValid ==
    EntryApproved =>
        LET sl == last.decision.stop_loss
            price == last.current_price
            atr == _get_atr(last.report)
            distance == QAbs(QSub(price, sl))
        IN  /\ QGt(sl, Zero)
            /\ last.decision.action = LONG => QLt(sl, price)
            /\ last.decision.action = SHORT => QGt(sl, price)
            /\ QGt(atr, Zero) =>
                  /\ QLe(QMul(Q(1, 2), atr), distance)
                  /\ QLe(distance, QMul(QInt(3), atr))

\* an approved SHORT whose stop sits within the ATR band of an available ATR
C4_Witness ==
    /\ EntryApproved
    /\ last.decision.action = SHORT
    /\ QGt(_get_atr(last.report), Zero)

\* the leverage-scale table, on a confidence clamped to [0, 1]
LeverageCapOf(confidence) ==
    LET c == IF QLt(confidence, Zero) THEN Zero
             ELSE IF QGt(confidence, QInt(1)) THEN QInt(1) ELSE confidence
    IN  IF QLt(c, Q(3, 10)) THEN QInt(1)
        ELSE IF QLt(c, Q(5, 10)) THEN QInt(2)
        ELSE IF QLt(c, Q(7, 10)) THEN QInt(5)
        ELSE IF QLt(c, Q(85, 100)) THEN QInt(7)
        ELSE QInt(10)

\* C5: every approved LONG/SHORT has adjusted_leverage <= min(requested
\* leverage, cap(confidence)); leverage 10 requested at confidence 0.4 on a
\* fresh portfolio of 1000 is approved with adjusted_leverage 2.
C5_LeverageCapped ==
    /\ EntryApproved =>
          /\ QLe(last.result.adjusted_leverage, last.decision.leverage)
          /\ QLe(last.result.adjusted_leverage, LeverageCapOf(last.decision.confidence))
    /\ ( /\ Validated
         /\ portfolio = PortfolioState(QInt(1000))
         /\ last.decision = LowConfidenceLong
         /\ last.report = [tf \in {"15m"} |-> QInt(30)] )
       => last.result.approved /\ last.result.adjusted_leverage = QInt(2)

\* leverage 10 requested at confidence 0.4, approved at 2
C5_Witness ==
    /\ EntryApproved
    /\ last.decision = LowConfidenceLong
    /\ last.result.adjusted_leverage = QInt(2)

HasPositionOn(symbol) ==
    \E i \in 1..Len(portfolio.open_positions) : portfolio.open_positions[i].symbol = symbol

FirstPositionOn(symbol) ==
    portfolio.open_positions[
        CHOOSE i \in 1..Len(portfolio.open_positions) :
            /\ portfolio.open_positions[i].symbol = symbol
            /\ \A j \in 1..(i - 1) : portfolio.open_positions[j].symbol # symbol]

\* C6 as stated: a LONG/SHORT for a symbol with an open position is rejected
\* with 'Already have <side> position' when a position of the requested side
\* exists and with 'CLOSE it first' when one of the opposite side exists.
C6_Original ==
    (EntryValidated /\ HasPositionOn(last.decision.symbol)) =>
        /\ ~last.result.approved
        /\ \A i \in 1..Len(portfolio.open_positions) :
              portfolio.open_positions[i].symbol = last.decision.symbol =>
                  IF portfolio.open_positions[i].side = last.decision.action
                  THEN HasReason(R_ALREADY(last.decision.action))
                  ELSE HasReason(R_OPPOSITE(portfolio.open_positions[i].side))

\* the decision fails none of the layers that precede the conflict check
PassesEarlierLayers ==
    LET decision == last.decision
        accessible == Accessible(decision, portfolio)
        quantity == SizedQuantity(decision, accessible, SizeMultiplier(portfolio),
                                  last.current_price)
        leverage == AdjustedLeverage(decision, portfolio)
    IN  /\ ~Halted(portfolio)
        /\ QGe(ClampConfidence(decision.confidence), Q(1, 10))
        /\ QGt(accessible, Zero)
        /\ StopLossReason(decision, _get_atr(last.report), last.current_price) = ""
        /\ ~RiskRewardFails(decision, accessible, compute_budget_zones(portfolio).free,
                            last.current_price)
        /\ QGt(quantity, Zero)
        /\ ~ExposureFit(portfolio,
                        MarginFit(quantity, leverage, accessible, last.current_price),
                        leverage, last.current_price).rejected

\* C6 (amended): a LONG/SHORT for a symbol with an open position is never
\* approved; when it fails no earlier layer, its last rejection reason is
\* 'Already have <side> position' if the first open position of the symbol has
\* the requested side and 'Have opposite <side> position - CLOSE it first'
\* otherwise.
C6_NoDuplicatePosition ==
    (EntryValidated /\ HasPositionOn(last.decision.symbol)) =>
        /\ ~last.result.approved
        /\ PassesEarlierLayers =>
              LET first == FirstPositionOn(last.decision.symbol)
                  reasons == last.result.rejection_reasons
              IN  /\ reasons # <<>>
                  /\ reasons[Len(reasons)] =
                        IF first.side = last.decision.action
                        THEN R_ALREADY(first.side)
                        ELSE R_OPPOSITE(first.side)

\* a decision that passes every earlier layer, turned down for the opposite
\* position already open on its symbol
C6_Witness ==
    /\ EntryValidated
    /\ HasPositionOn(last.decision.symbol)
    /\ PassesEarlierLayers
    /\ FirstPositionOn(last.decision.symbol).side # last.decision.action
    /\ HasReason(R_OPPOSITE(FirstPositionOn(last.decision.symbol).side))

\* C7: every HOLD and every CLOSE is approved in any portfolio state, with
\* adjusted_leverage and adjusted_quantity equal to the decision's own and no
\* rejection reasons.
C7_HoldClosePassThrough ==
    (Validated /\ last.decision.action \in {HOLD, CLOSE}) =>
        /\ last.result.approved
        /\ last.result.adjusted_leverage = last.decision.leverage
        /\ last.result.adjusted_quantity = last.decision.quantity
        /\ last.result.rejection_reasons = <<>>

\* a CLOSE approved while the drawdown halt is on and nothing is accessible
C7_Witness ==
    /\ Validated
    /\ last.decision.action = CLOSE
    /\ last.decision.quantity # Zero
    /\ last.result.approved
    /\ QGe(QSub(portfolio.peak_budget, portfolio.current_budget),
           QMul(Q(20, 100), portfolio.peak_budget))
    /\ compute_budget_zones(portfolio).accessible = Zero

\* C8: with drawdown_from_peak >= 0.20 every LONG and every SHORT is rejected
\* with a reason containing 'HALTED'.
C8_DrawdownHalt ==
    ( /\ EntryValidated
      /\ QGt(portfolio.peak_budget, Zero)
      /\ QGe(QSub(portfolio.peak_budget, portfolio.current_budget),
             QMul(Q(20, 100), portfolio.peak_budget)) )
    => ~last.result.approved /\ HasReason(R_HALTED)

\* an otherwise acceptable LONG halted at a drawdown of exactly 0.20
C8_Witness ==
    /\ EntryValidated
    /\ last.decision = LowConfidenceLong
    /\ portfolio.open_positions = <<>>
    /\ QSub(portfolio.peak_budget, portfolio.current_budget)
          = QMul(Q(20, 100), portfolio.peak_budget)
    /\ HasReason(R_HALTED)

ZonesComputed == last.op = "compute_budget_zones"

\* wins among the last n closed trades
TailWins(n) ==
    Cardinality({i \in 1..Len(portfolio.closed_trades) :
        /\ i > Len(portfolio.closed_trades) - n
        /\ QGt(portfolio.closed_trades[i].pnl, Zero)})

\* at least 20 trades, at least 45% of the last 20 won, a win among the last 3
GuardedCondition ==
    /\ Len(portfolio.closed_trades) >= 20
    /\ TailWins(20) * 100 >= 45 * 20
    /\ TailWins(3) > 0

\* at least 30 trades, at least 60% of the last 30 won
FloorCondition ==
    /\ Len(portfolio.closed_trades) >= 30
    /\ TailWins(30) * 100 >= 60 * 30

Share(pct_num) == QMul(Q(pct_num, 100), portfolio.current_budget)

UnlockedSum ==
    QAdd(QAdd(Share(70), IF GuardedCondition THEN Share(20) ELSE Zero),
         IF FloorCondition THEN Share(5) ELSE Zero)

AccessibleFormula ==
    last.zones.accessible = QMax(Zero, QSub(UnlockedSum, total_margin_in_use(portfolio)))

\* C9 as stated: accessible = max(0, free + guarded-if-unlocked +
\* floor-if-unlocked - total_margin_in_use), never negative and never above
\* (free_pct + guarded_pct + floor_pct) x current_budget.
C9_Original ==
    ZonesComputed =>
        /\ AccessibleFormula
        /\ QGe(last.zones.accessible, Zero)
        /\ QLe(last.zones.accessible, Share(95))

\* C9 (amended): accessible = max(0, free + guarded-if-unlocked +
\* floor-if-unlocked - total_margin_in_use), never negative, and never above
\* max(0, 0.95 x current_budget): the lockout share is never counted, and on a
\* negative current_budget accessible is 0.
C9_LockoutNeverAccessible ==
    ZonesComputed =>
        /\ AccessibleFormula
        /\ QGe(last.zones.accessible, Zero)
        /\ QLe(last.zones.accessible, QMax(Zero, Share(95)))
        /\ last.zones.lockout = Share(5)

\* both zones unlocked and nothing open: accessible is exactly 95% of a
\* positive budget
C9_Witness ==
    /\ ZonesComputed
    /\ GuardedCondition
    /\ FloorCondition
    /\ portfolio.open_positions = <<>>
    /\ QGt(portfolio.current_budget, Zero)
    /\ last.zones.accessible = Share(95)
    /\ QLt(last.zones.accessible, portfolio.current_budget)

AllWins(from, to) ==
    \A i \in from..to : QGt(portfolio.closed_trades[i].pnl, Zero)

AllLosses(from, to) ==
    \A i \in from..to : QLt(portfolio.closed_trades[i].pnl, Zero)

\* C10: the guarded share is part of accessible iff there are at least 20
\* closed trades, the win rate over the last 20 is >= 0.45 and fewer than 3
\* non-winning trades end the record; 20 wins on equity 1000 give 900, 17 wins
\* then 3 losses give 700.
C10_GuardedUnlock ==
    ZonesComputed =>
        LET rest == QSub(QAdd(Share(70), IF FloorCondition THEN Share(5) ELSE Zero),
                         total_margin_in_use(portfolio))
            n == Len(portfolio.closed_trades)
            plain == /\ n = 20
                     /\ portfolio.open_positions = <<>>
                     /\ portfolio.current_budget = QInt(1000)
        IN  /\ GuardedCondition =>
                last.zones.accessible = QMax(Zero, QAdd(rest, last.zones.guarded))
            /\ ~GuardedCondition => last.zones.accessible = QMax(Zero, rest)
            /\ last.zones.guarded = Share(20)
            /\ (plain /\ AllWins(1, 20)) => last.zones.accessible = QInt(900)
            /\ (plain /\ AllWins(1, 17) /\ AllLosses(18, 20)) =>
                last.zones.accessible = QInt(700)

\* 21 trades of which only the last 9 are wins: 9 of the last 20 is exactly
\* 0.45, and the guarded share is counted
C10_Witness ==
    /\ ZonesComputed
    /\ Len(portfolio.closed_trades) = 21
    /\ TailWins(20) = 9
    /\ TailWins(21) = 9
    /\ portfolio.open_positions = <<>>
    /\ portfolio.current_budget = QInt(1000)
    /\ last.zones.accessible = QInt(900)

Rows(buf) ==
    [i \in 1..Len(buf.timestamp) |->
        Candle(buf.open[i], buf.high[i], buf.low[i], buf.close[i], buf.volume[i],
               buf.timestamp[i])]

SameTimestampAppend ==
    /\ last.op = "append"
    /\ Len(last.before.timestamp) > 0
    /\ last.before.timestamp[Len(last.before.timestamp)] = last.candle.timestamp

\* C12: an append whose ts equals the last stored timestamp overwrites only
\* the last row's open, high, low, close and volume; the length, the last
\* timestamp and every earlier row are unchanged.
C12_InPlaceUpdate ==
    SameTimestampAppend =>
        LET n == Len(last.before.timestamp)
        IN  /\ \A i \in 1..6 : Len(buffer[Columns[i]]) = n
            /\ buffer.timestamp = last.before.timestamp
            /\ buffer.max_size = last.before.max_size
            /\ \A i \in 1..6 : \A r \in 1..(n - 1) :
                    buffer[Columns[i]][r] = last.before[Columns[i]][r]
            /\ \A i \in 1..5 : buffer[Columns[i]][n] = last.candle[Columns[i]]

\* the second row of a buffer revised by a candle that differs in every value
C12_Witness ==
    /\ SameTimestampAppend
    /\ Len(buffer.timestamp) = 2
    /\ \A i \in 1..5 : last.before[Columns[i]][2] # last.candle[Columns[i]]
    /\ buffer.open[2] = last.candle.open

\* C13: after any run of append calls the stored timestamps are
\* non-decreasing and pairwise distinct.
C13_TimestampsIncrease ==
    last.appends_only =>
        \A i, j \in 1..Len(buffer.timestamp) :
            i < j => buffer.timestamp[i] < buffer.timestamp[j]

Swept == last.op = "check_stop_loss_take_profit"

PriceOf(pos) == last.prices[pos.symbol]

\* the stop-loss and take-profit conditions as the claim words them
StopHit(pos) ==
    /\ pos.symbol \in DOMAIN last.prices
    /\ \/ pos.side = LONG /\ QLe(PriceOf(pos), pos.stop_loss)
       \/ pos.side = SHORT /\ QGe(PriceOf(pos), pos.stop_loss)

TargetHit(pos) ==
    /\ pos.symbol \in DOMAIN last.prices
    /\ \/ pos.side = LONG /\ QGe(PriceOf(pos), pos.take_profit)
       \/ pos.side = SHORT /\ QLe(PriceOf(pos), pos.take_profit)

\* the sweep closed exactly the positions of the book that satisfy Hit, in
\* book order, at their price, with reason SL when Stop holds and TP otherwise
SweepCloses(Hit(_), Stop(_)) ==
    LET book == last.before.open_positions
        old == Len(last.before.closed_trades)
        hits == SelectSeq(book, Hit)
    IN  /\ portfolio.open_positions = SelectSeq(book, LAMBDA pos : ~Hit(pos))
        /\ Len(portfolio.closed_trades) = old + Len(hits)
        /\ SubSeq(portfolio.closed_trades, 1, old) = last.before.closed_trades
        /\ \A i \in 1..Len(hits) :
            LET trade == portfolio.closed_trades[old + i]
            IN  /\ trade.symbol = hits[i].symbol
                /\ trade.side = hits[i].side
                /\ trade.entry_price = hits[i].entry_price
                /\ trade.quantity = hits[i].quantity
                /\ trade.margin = hits[i].margin
                /\ trade.exit_price = PriceOf(hits[i])
                /\ trade.close_reason = IF Stop(hits[i]) THEN "SL" ELSE "TP"

\* C16 as stated: the positions closed are those with a price whose stop-loss
\* or take-profit condition holds (LONG: price <= sl or price >= tp; SHORT:
\* price >= sl or price <= tp).
C16_Original ==
    Swept => SweepCloses(LAMBDA pos : StopHit(pos) \/ TargetHit(pos), StopHit)

StopSet(pos) == QGt(pos.stop_loss, Zero) /\ StopHit(pos)

TargetSet(pos) == QGt(pos.take_profit, Zero) /\ TargetHit(pos)

\* C16 (amended): the positions closed are those with a price whose stop-loss,
\* when it is set (> 0), or take-profit, when it is set (> 0), condition holds
\* at that price; each is closed at that price with reason 'SL' whenever the
\* stop-loss condition holds and 'TP' otherwise; every other position stays
\* open and unchanged.
C16_SweepCloses ==
    Swept => SweepCloses(LAMBDA pos : StopSet(pos) \/ TargetSet(pos), StopSet)

\* a LONG whose stop and target both hold is closed as SL, next to a position
\* without a price that stays open
C16_Witness ==
    /\ Swept
    /\ last.before.open_positions = <<EthLongLowTp, BtcLong>>
    /\ DOMAIN last.prices = {ETH}
    /\ StopSet(EthLongLowTp) /\ TargetSet(EthLongLowTp)
    /\ portfolio.open_positions = <<BtcLong>>
    /\ portfolio.closed_trades[1].close_reason = "SL"

Permuted(book) ==
    {b \in Arrangements({book[i] : i \in 1..Len(book)}, Len(book)) :
        /\ Len(b) = Len(book)
        /\ \A i, j \in 1..Len(b) : i # j => b[i] # b[j]}

NewTrades(before, after) ==
    {after.closed_trades[i] :
        i \in (Len(before.closed_trades) + 1)..Len(after.closed_trades)}

\* C17: for any permutation of open_positions one sweep closes the same
\* positions with the same reasons and pnl and leaves the same current_budget
\* and the same peak_budget.
C17_OrderIndependent ==
    Swept =>
        \A book \in Permuted(last.before.open_positions) :
            LET other == check_stop_loss_take_profit(
                             [last.before EXCEPT !.open_positions = book], last.prices)
            IN  /\ NewTrades(last.before, other) = NewTrades(last.before, portfolio)
                /\ other.current_budget = portfolio.current_budget
                /\ other.peak_budget = portfolio.peak_budget

(***************************************************************************)
(* process_response                                                        *)
(***************************************************************************)
Responded == last.op = "process_response"

\* the text parses in none of the three ways
Unparseable(response_text) ==
    LET content == StripFences(response_text)
    IN  ~Loads(content) /\ ~Loads(Braced(content))

HoldForEverySymbol(validated) ==
    /\ Len(validated) = Len(symbols)
    /\ \A i \in 1..Len(symbols) :
          /\ validated[i].original.symbol = symbols[i]
          /\ validated[i].original.action = HOLD

\* C18: when the response text parses neither directly, nor without its code
\* fences, nor from its first to its last brace, process_response yields a
\* HOLD for every configured symbol and leaves open_positions, closed_trades
\* and current_budget as they were
C18_UnparseableHolds ==
    (Responded /\ Unparseable(last.response_text)) =>
        /\ HoldForEverySymbol(last.validated)
        /\ portfolio.open_positions = last.before.open_positions
        /\ portfolio.closed_trades = last.before.closed_trades
        /\ portfolio.current_budget = last.before.current_budget

\* C19: the decisions process_response validates hold exactly one decision
\* for each configured symbol
C19_OneDecisionPerSymbol ==
    Responded =>
        \A i \in 1..Len(symbols) :
            Cardinality({j \in 1..Len(last.validated) :
                            last.validated[j].original.symbol = symbols[i]}) = 1

\* C20: a decision whose symbol is not configured is dropped in parsing: it
\* is not among the decisions process_response validates, it is not in the
\* list process_response returns, and it is not applied to the portfolio
C20_UnknownSymbolsDropped ==
    LET Configured(symbol) == \E i \in 1..Len(symbols) : symbol = symbols[i]
    IN  Responded =>
          /\ \A j \in 1..Len(last.validated) : Configured(last.validated[j].original.symbol)
          /\ \A j \in 1..Len(last.decisions) : Configured(last.decisions[j].symbol)
          /\ \A j \in 1..Len(portfolio.open_positions) :
                 Configured(portfolio.open_positions[j].symbol)

(***************************************************************************)
(* DataCollector                                                           *)
(***************************************************************************)
\* C14: a snapshot that get_snapshot returned keeps the kline rows, orderbook
\* levels, BBO, funding, open interest, ticker, volume delta and prices it
\* had when it was returned, whatever handlers and backfills run afterwards
C14_SnapshotIndependent ==
    last.op # "init" =>
        \A i \in 1..Len(last.snapshots) :
            Contents(collector.heap, last.snapshots[i].snapshot) = last.snapshots[i].taken

\* a snapshot holding a candle that a later message updated in place
C14_Witness ==
    /\ last.op # "init"
    /\ \E i \in 1..Len(last.snapshots) :
          LET taken == last.snapshots[i].taken
              now == BufferAt(collector.heap, collector._klines["5m"])
          IN  /\ size(taken.klines["5m"]) > 0
              /\ now.timestamp = taken.klines["5m"].timestamp
              /\ now.close # taken.klines["5m"].close

\* C15: a snapshot never shows a partially applied message: its BBO and its
\* orderbook are each as one whole message (or __init__) left them
C15_SnapshotAtomic ==
    last.op # "init" =>
        \A i \in 1..Len(last.snapshots) :
            LET taken == last.snapshots[i].taken
            IN  /\ \E k \in 0..MaxMsgs :
                      taken.bbo = [bid_price |-> k, bid_qty |-> k, ask_price |-> k,
                                   ask_qty |-> k, timestamp |-> k]
                /\ \E k \in 0..MaxMsgs :
                      /\ taken.orderbook.timestamp = k
                      /\ taken.orderbook.bids = (IF k = 0 THEN <<>> ELSE Levels(k))
                      /\ taken.orderbook.asks = (IF k = 0 THEN <<>> ELSE Levels(k))

\* a decision of the list that validation rejected
Rejected(v) == ~v.approved

\* C21: when every decision process_response validated is rejected or is a
\* HOLD, open_positions, closed_trades, current_budget and peak_budget are
\* after the call what they were before it
C21_RejectedHasNoEffect ==
    (Responded /\ \A j \in 1..Len(last.validated) :
                      Rejected(last.validated[j]) \/ last.validated[j].original.action = HOLD) =>
        /\ portfolio.open_positions = last.before.open_positions
        /\ portfolio.closed_trades = last.before.closed_trades
        /\ portfolio.current_budget = last.before.current_budget
        /\ portfolio.peak_budget = last.before.peak_budget

\* an entry the risk manager rejected beside HOLDs, on a portfolio with a
\* position open
C21_Witness ==
    /\ Responded
    /\ portfolio.open_positions # <<>>
    /\ \A j \in 1..Len(last.validated) :
          Rejected(last.validated[j]) \/ last.validated[j].original.action = HOLD
    /\ \E j \in 1..Len(last.validated) :
          /\ last.validated[j].original.action \in {LONG, SHORT}
          /\ Rejected(last.validated[j])
          /\ last.validated[j].rejection_reasons # <<R_NO_DATA>>
    /\ \E j \in 1..Len(last.validated) : last.validated[j].original.action = HOLD

(***************************************************************************)
(* Indicators                                                              *)
(***************************************************************************)
\* C22: for every close sequence longer than the period, every value of the
\* RSI array that is not nan lies in [0, 100], and the entries at the
\* indices 0 .. period - 1 are nan
C22_RsiRange ==
    (last.op = "rsi" /\ Len(last.close) > last.period) =>
        /\ Len(last.result) = Len(last.close)
        /\ \A i \in 1..last.period : last.result[i] = nan
        /\ \A i \in 1..Len(last.result) :
              last.result[i] # nan =>
                  /\ QLe(Zero, last.result[i])
                  /\ QLe(last.result[i], QInt(100))

\* an array with a value strictly inside the range after the seed, one at
\* each end of it, and more than one undefined entry
C22_Witness ==
    /\ last.op = "rsi"
    /\ last.period > 1
    /\ Len(last.close) > last.period + 1
    /\ \E i \in 1..Len(last.result) :
          /\ i > last.period + 1
          /\ last.result[i] # nan
          /\ QLt(Zero, last.result[i])
          /\ QLt(last.result[i], QInt(100))
    /\ \E i \in 1..Len(last.result) : last.result[i] = QInt(100)
    /\ \E i \in 1..Len(last.result) : last.result[i] = Zero

(***************************************************************************)
(* validate_decision: the order of the layers                              *)
(***************************************************************************)
\* what each layer, taken on its own, holds against the decision validated,
\* in the order drawdown halt, confidence floor, accessible budget,
\* stop-loss validity, risk/reward, position size, exposure limit, position
\* conflict; "" where the layer has no objection
LayerReasons ==
    LET decision == last.decision
        price == last.current_price
        accessible == Accessible(decision, portfolio)
        adjusted_leverage == AdjustedLeverage(decision, portfolio)
        quantity == SizedQuantity(decision, accessible, SizeMultiplier(portfolio),
                                  price)
        fit == MarginFit(quantity, adjusted_leverage, accessible, price)
    IN  << IF QGe(drawdown_from_peak(portfolio), Q(20, 100)) THEN R_HALTED ELSE "",
           IF QLt(ClampConfidence(decision.confidence), Q(1, 10)) THEN R_CONFIDENCE ELSE "",
           IF QLe(accessible, Zero) THEN R_NO_BUDGET ELSE "",
           StopLossReason(decision, _get_atr(last.report), price),
           IF RiskRewardFails(decision, accessible, compute_budget_zones(portfolio).free,
                              price)
           THEN R_RR ELSE "",
           IF QLe(quantity, Zero) THEN R_ZERO_SIZE ELSE "",
           IF ExposureFit(portfolio, fit, adjusted_leverage, price).rejected
           THEN R_EXPOSURE ELSE "",
           ConflictReason(decision, portfolio) >>

Failing(reasons) == {k \in 1..Len(reasons) : reasons[k] # ""}

Earliest(failing) == CHOOSE k \in failing : \A other \in failing : k <= other

C24_TwoPercentRule ==
    EntryApproved =>
        /\ QLe(last.result.adjusted_quantity, last.decision.quantity)
        /\ last.result.max_loss =
              QMul(last.result.adjusted_quantity,
                   QAbs(QSub(last.current_price, last.decision.stop_loss)))
        /\ QLe(last.result.max_loss,
               QMul(QMul(Q(2, 100), Accessible(last.decision, portfolio)),
                    IF QGe(drawdown_from_peak(portfolio), Q(10, 100))
                    THEN Q(1, 2) ELSE QInt(1)))

\* an approval at a drawdown of 10% whose quantity was cut to the halved
\* loss budget exactly
C24_Witness ==
    /\ EntryApproved
    /\ QGe(drawdown_from_peak(portfolio), Q(10, 100))
    /\ QLt(last.result.adjusted_quantity, last.decision.quantity)
    /\ last.result.max_loss =
          QMul(Q(1, 100), Accessible(last.decision, portfolio))

\* the part of the free zone that is not in use as margin
FreeRemainder ==
    QMax(Zero, QSub(compute_budget_zones(portfolio).free, total_margin_in_use(portfolio)))

\* C25: an approved LONG/SHORT with confidence < 0.75 has margin_required <=
\* max(0, free - total_margin_in_use), whatever zones are unlocked and
\* whatever margin is in use
C25_LowConfidenceFreeOnly ==
    (EntryApproved /\ QLt(last.decision.confidence, Q(75, 100))) =>
        QLe(last.result.margin_required, FreeRemainder)

\* |take_profit - current_price| / |current_price - stop_loss| of the
\* decision validated
RiskReward ==
    QDiv(QAbs(QSub(last.decision.take_profit, last.current_price)),
         QAbs(QSub(last.current_price, last.decision.stop_loss)))

\* C26: every approved LONG/SHORT with take_profit > 0 has a risk/reward
\* ratio of at least 1.5, and of at least 2.0 whenever its margin_required
\* exceeds max(0, free - total_margin_in_use)
C26_RiskRewardFloor ==
    (EntryApproved /\ QGt(last.decision.take_profit, Zero)) =>
        /\ QGe(RiskReward, Q(3, 2))
        /\ QGt(last.result.margin_required, FreeRemainder) => QGe(RiskReward, QInt(2))

\* the position _execute_decisions opens for the approved decision
Opened ==
    Position(last.decision.symbol, last.decision.action, last.current_price,
             final_quantity(last.result), final_leverage(last.result),
             last.decision.stop_loss, last.decision.take_profit,
             QDiv(QMul(final_quantity(last.result), last.current_price),
                  final_leverage(last.result)))

\* C29: an approved LONG with take_profit > 0 has take_profit > current_price
\* and an approved SHORT with take_profit > 0 has take_profit < current_price,
\* so the position opened for it does not meet its take-profit condition at
\* its entry price
C29_TakeProfitSide ==
    (EntryApproved /\ QGt(last.decision.take_profit, Zero)) =>
        /\ last.decision.action = LONG => QGt(last.decision.take_profit, last.current_price)
        /\ last.decision.action = SHORT => QLt(last.decision.take_profit, last.current_price)
        /\ ~should_take_profit(Opened, last.current_price)

(***************************************************************************)
(* process_response: what reaches the portfolio                           *)
(***************************************************************************)
PositionsOn(pf, symbol) ==
    {i \in 1..Len(pf.open_positions) : pf.open_positions[i].symbol = symbol}

\* C27: after process_response on an empty portfolio there is at most one
\* open position per symbol, also when the response holds several
\* LONG/SHORT decisions for one symbol
C27_OnePositionPerSymbol ==
    (Responded /\ last.before.open_positions = <<>>) =>
        \A i \in 1..Len(portfolio.open_positions) :
            Cardinality(PositionsOn(portfolio, portfolio.open_positions[i].symbol)) <= 1

WithinExposure(pf) == QLe(total_margin_in_use(pf), QMul(Q(80, 100), pf.current_budget))

\* C28: when total_margin_in_use <= 0.80 x current_budget holds before a
\* process_response call, it holds after it, also when the response holds
\* approved LONG/SHORT decisions for several symbols
C28_ExposureAfterResponse ==
    (Responded /\ WithinExposure(last.before)) => WithinExposure(portfolio)

(***************************************************************************)
(* check_stops: the price of a symbol that has none                        *)
(***************************************************************************)
\* C30: check_stop_loss_take_profit never closes a position at a
\* non-positive price: when the current price of a symbol is unavailable
\* (current_price is 0), the positions of that symbol stay open and the
\* budget is unchanged.
C30_NoCloseAtNonPositivePrice ==
    last.op = "check_stops" =>
        /\ \A i \in 1..Len(portfolio.closed_trades) :
              i > Len(last.before.closed_trades) =>
                  QGt(portfolio.closed_trades[i].exit_price, Zero)
        /\ \A i \in 1..Len(last.before.open_positions) :
              LET pos == last.before.open_positions[i]
              IN  QLe(last.prices[pos.symbol], Zero) =>
                      \E j \in 1..Len(portfolio.open_positions) :
                          portfolio.open_positions[j] = pos
        /\ (\A i \in 1..Len(last.before.open_positions) :
               QLe(last.prices[last.before.open_positions[i].symbol], Zero)) =>
              portfolio.current_budget = last.before.current_budget

(***************************************************************************)
(* The engine over several cycles                                          *)
(***************************************************************************)
\* the portfolio as turn i of the loop of _execute_decisions finds it
RECURSIVE BeforeTurn(_, _, _, _)
BeforeTurn(pf, validated, prices, i) ==
    IF i = 1 THEN pf
    ELSE CHOOSE found \in
             {BeforeTurn(executed, Tail(validated), prices, i - 1) :
                 executed \in {ExecuteOne(pf, Head(validated), prices)}} : TRUE

\* the turns of the last response that execute an approved CLOSE
CloseTurns ==
    {i \in 1..Len(last.validated) :
        last.validated[i].approved /\ last.validated[i].original.action = CLOSE}

PositionsOf(pf, symbol) == SelectSeq(pf.open_positions, LAMBDA p : p.symbol = symbol)

PositionsOff(pf, symbol) == SelectSeq(pf.open_positions, LAMBDA p : p.symbol # symbol)

\* C31: executing an approved CLOSE for symbol S closes every open position
\* of S at the cycle's price for S with reason LLM_CLOSE, one trade per
\* position, and leaves the positions of the other symbols open and
\* unchanged; when S has no open position the portfolio is unchanged.
C31_CloseClosesSymbol ==
    Responded =>
        \A i \in CloseTurns :
            \A before \in {BeforeTurn(last.before, last.validated, last.prices, i)} :
                \A after \in {ExecuteOne(before, last.validated[i], last.prices)} :
                    LET S == last.validated[i].original.symbol
                        mine == PositionsOf(before, S)
                        n == Len(before.closed_trades)
                    IN  /\ after.open_positions = PositionsOff(before, S)
                        /\ Len(after.closed_trades) = n + Len(mine)
                        /\ SubSeq(after.closed_trades, 1, n) = before.closed_trades
                        /\ \A k \in 1..Len(mine) :
                              after.closed_trades[n + k] =
                                  MakeTrade(mine[k], last.prices[S], "LLM_CLOSE")
                        /\ mine = <<>> => after = before

\* a CLOSE that closed a position while another symbol had one open
C31_Witness ==
    /\ Responded
    /\ \E i \in CloseTurns :
          \E before \in {BeforeTurn(last.before, last.validated, last.prices, i)} :
              /\ PositionsOf(before, last.validated[i].original.symbol) # <<>>
              /\ PositionsOff(before, last.validated[i].original.symbol) # <<>>
              /\ PositionsOff(before, last.validated[i].original.symbol) = portfolio.open_positions

\* the drawdown halt with the book flat, as the claim words it
HaltedFlat(pf) ==
    /\ QGe(drawdown_from_peak(pf), Q(20, 100))
    /\ pf.open_positions = <<>>

\* C32: the drawdown halt is absorbing once the book is flat: from a state
\* with drawdown_from_peak >= 0.20 and no open position, no call of
\* process_response or check_stop_loss_take_profit opens a position or
\* changes current_budget.
C32_HaltAbsorbing ==
    [][HaltedFlat(portfolio) =>
          /\ portfolio'.open_positions = <<>>
          /\ portfolio'.current_budget = portfolio.current_budget
          /\ portfolio'.peak_budget = portfolio.peak_budget]_vars

\* a prepared response with an ETH long met the halt that a gap through the
\* stop of an earlier ETH long had caused
C32_Witness ==
    /\ Responded
    /\ last.was_prepared
    /\ HaltedFlat(last.before)
    /\ \E k \in 1..Len(last.before.closed_trades) :
          /\ last.before.closed_trades[k].close_reason = "SL"
          /\ last.before.closed_trades[k].exit_price = QInt(900)
    /\ \E i \in 1..Len(last.validated) :
          /\ last.validated[i].original.action = LONG
          /\ ~last.validated[i].approved
          /\ last.validated[i].rejection_reasons = <<R_HALTED>>
    /\ portfolio = last.before

\* C33: every opened position is closed at most once: the number of
\* open_position calls so far equals |open_positions| + |closed_trades|,
\* each trade a call has added records one position that was open before
\* the call and is no longer, and its close_reason is SL, TP or LLM_CLOSE.
C33_ClosedAtMostOnce ==
    /\ last.opened = Len(portfolio.open_positions) + Len(portfolio.closed_trades)
    /\ \A k \in 1..Len(portfolio.closed_trades) :
          portfolio.closed_trades[k].close_reason \in {"SL", "TP", "LLM_CLOSE"}
    /\ last.op = "check_stop_loss_take_profit" =>
          LET n == Len(last.before.closed_trades)
              added == SubSeq(portfolio.closed_trades, n + 1, Len(portfolio.closed_trades))
          IN  /\ SubSeq(portfolio.closed_trades, 1, n) = last.before.closed_trades
              /\ Len(last.before.open_positions)
                     = Len(portfolio.open_positions) + Len(added)
              /\ \A k \in 1..Len(added) :
                    \E j \in 1..Len(last.before.open_positions) :
                        added[k] = MakeTrade(last.before.open_positions[j],
                                             added[k].exit_price, added[k].close_reason)
    /\ Responded =>
          LET n == Len(last.before.closed_trades)
              added == SubSeq(portfolio.closed_trades, n + 1, Len(portfolio.closed_trades))
              made == OpenedBy(last.validated, last.prices)
          IN  /\ SubSeq(portfolio.closed_trades, 1, n) = last.before.closed_trades
              /\ Len(last.before.open_positions) + made
                     = Len(portfolio.open_positions) + Len(added)

\* two positions opened by one response, one closed by a sweep and then
\* the other by a CLOSE
C33_Witness ==
    /\ Responded
    /\ last.opened = 2
    /\ portfolio.open_positions = <<>>
    /\ Len(last.before.open_positions) = 1
    /\ \E j, k \in 1..Len(portfolio.closed_trades) :
          /\ portfolio.closed_trades[j].close_reason = "LLM_CLOSE"
          /\ portfolio.closed_trades[k].close_reason \in {"SL", "TP"}

\* C34: the pending state stashed by prepare_analysis is consumed by one
\* process_response: a process_response made with no prepare_analysis since
\* the one before it rejects every decision, HOLD and CLOSE included, with
\* "No price/indicator data" and leaves the portfolio as it was.
C34_PendingConsumedOnce ==
    (Responded /\ ~last.was_prepared) =>
        /\ \A i \in 1..Len(last.validated) :
              /\ ~last.validated[i].approved
              /\ last.validated[i].rejection_reasons = <<R_NO_DATA>>
        /\ portfolio = last.before

\* the second of two responses that followed one prepare_analysis: it asked
\* to close ETH while an ETH position was open
C34_Witness ==
    /\ Responded
    /\ ~last.was_prepared
    /\ last.opened > 0
    /\ PositionsOf(portfolio, ETH) # <<>>
    /\ \E i \in 1..Len(last.validated) :
          /\ last.validated[i].original.action = CLOSE
          /\ last.validated[i].original.symbol = ETH
    /\ \E i \in 1..Len(last.validated) : last.validated[i].original.action = HOLD

(***************************************************************************)
(* The recent-trades FIFO                                                  *)
(***************************************************************************)
RecentTrades == collector.heap[collector._recent_trades]

\* the quantities of the trades of one side among trades[1..n]
RECURSIVE VolumeOf(_, _, _)
VolumeOf(trades, side, n) ==
    IF n = 0 THEN 0
    ELSE VolumeOf(trades, side, n - 1)
           + (IF trades[n].side = side THEN trades[n].quantity ELSE 0)

Records(c) ==
    [kline_5m |-> BufferAt(c.heap, c._klines["5m"]),
     kline_15m |-> BufferAt(c.heap, c._klines["15m"]),
     kline_1h |-> BufferAt(c.heap, c._klines["1h"]),
     orderbook |-> [bids |-> c.heap[c.heap[c._orderbook].bids],
                    asks |-> c.heap[c.heap[c._orderbook].asks],
                    timestamp |-> c.heap[c._orderbook].timestamp],
     bbo |-> c.heap[c._bbo],
     trade |-> c.heap[c._recent_trades],
     ticker |-> c.heap[c._ticker],
     estfundingrate |-> c.heap[c._funding],
     openinterest |-> c.heap[c._open_interest],
     traders_oi |-> c.heap[c._traders_oi],
     markprice |-> c._mark_price,
     indexprice |-> c._index_price]

\* the marker of a stream occurs in the topic
Names(topic, stream) ==
    IF stream = "orderbook"
    THEN In(<<"@orderbook">>, topic) /\ ~In(<<"@orderbook", "update">>, topic)
    ELSE In(<<"@" \o stream>>, topic)

OnMessageDone == last.op = "on_message"

ObjectMessage == OnMessageDone /\ last.raw_message.kind = "json"
                     /\ last.raw_message.value.type = "object"

StringTopic ==
    /\ ObjectMessage
    /\ "topic" \in DOMAIN last.raw_message.value.members
    /\ last.raw_message.value.members.topic.type = "string"

NullData ==
    /\ ObjectMessage
    /\ Get(last.raw_message.value.members, "data", [type |-> NULL]).type = NULL

\* C36: a message changes at most the record of one stream, a stream its
\* topic names; with null data, or a topic that names no stream (the
\* update stream of the orderbook, an unknown topic), it changes nothing
C36_OneHandlerOwnStream ==
    OnMessageDone =>
        /\ \A s, t \in DOMAIN Records(collector) :
              /\ Records(collector)[s] # Records(last.before)[s]
              /\ Records(collector)[t] # Records(last.before)[t]
              => /\ s = t
                 /\ StringTopic
                 /\ Names(last.raw_message.value.members.topic.value, s)
        /\ NullData => Records(collector) = Records(last.before)
        /\ StringTopic
             /\ last.raw_message.value.members.topic.value \in
                    {<<"PERP_ETH_USDC", "@orderbook", "update">>, <<"account">>, <<>>}
             => Records(collector) = Records(last.before)

\* a BBO message was applied, and one on a topic that names two streams
C36_Witness ==
    /\ OnMessageDone
    /\ StringTopic
    /\ last.raw_message.value.members.topic.value = <<"PERP_ETH_USDC", "@bbo", "@trade">>
    /\ Records(collector).bbo # Records(last.before).bbo
    /\ Records(last.before).orderbook.bids # <<>>
    /\ Records(collector).trade = Records(last.before).trade

\* C37: whatever the raw message, _on_message returns without an exception
\* reaching the transport
C37_NeverPropagates ==
    last.op \in {"on_message", "get_snapshot"} => last.raised = ""

\* the handler of the last message raised before its last statement
HandlerRaised ==
    /\ last.op \in {"on_message", "get_snapshot"}
    /\ last.raw_message.kind = "json"
    /\ last.raw_message.value.type = "object"
    /\ "topic" \in DOMAIN last.raw_message.value.members
    /\ last.raw_message.value.members.topic.type = "string"
    /\ Get(last.raw_message.value.members, "data", [type |-> NULL]).type # NULL
    /\ Route(last.raw_message.value.members.topic.value).topic # "none"
    /\ RaisesAt(Route(last.raw_message.value.members.topic.value).topic,
                last.raw_message.value.members.data) # 0

\* C38: a message whose handler raises leaves every record as it was, in
\* the collector and in the snapshot taken next
C38_RaiseLeavesStateUnchanged ==
    HandlerRaised =>
        /\ Records(collector) = Records(last.before)
        /\ last.op = "get_snapshot" =>
              /\ last.taken.bbo = Records(last.before).bbo
              /\ last.taken.orderbook = Records(last.before).orderbook
              /\ last.taken.ticker = Records(last.before).ticker
              /\ last.taken.funding = Records(last.before).estfundingrate

(***************************************************************************)
(* The lock of the collector                                               *)
(***************************************************************************)
\* the thread is inside a with block
InBlock(thread) ==
    /\ thread.op # "idle"
    /\ \E i \in 1..(thread.at - 1) :
          /\ Code(thread.op, thread.msg)[i].do = "acquire"
          /\ \A j \in i..(thread.at - 1) : Code(thread.op, thread.msg)[j].do # "release"

\* no thread asks for the lock it holds, and a thread holds the lock
\* exactly while it is inside a with block
LockDiscipline ==
    \A n \in Threads :
        /\ AtAcquire(last[n]) => collector.lock # n
        /\ collector.lock = n <=> InBlock(last[n])

\* C39: the lock is never asked for by the thread that holds it, it is
\* released whenever a thread leaves its with block (by a raise too), and
\* every thread that asks for the lock gets it
C39_LockGranted ==
    /\ []LockDiscipline
    /\ \A n \in Threads : AtAcquire(last[n]) ~> collector.lock = n

\* the driver holds the lock after waiting for a handler that raised
C39_Witness ==
    /\ collector.lock = "main"
    /\ last.main.waited
    /\ last.ws.op = "idle"
    /\ last.received = 1
    /\ collector.heap[collector._bbo].bid_qty = 1
    /\ collector.heap[collector._bbo].ask_price = 0

(***************************************************************************)
(* Decisions of the lenient parser                                         *)
(***************************************************************************)
\* C40: an approved LONG or SHORT has a positive quantity, a leverage of at
\* least 1 and a positive margin, whatever numbers the response gave
C40_ApprovedEntrySane ==
    /\ last.op = "validate_decision"
    /\ last.decision.action \in {LONG, SHORT}
    /\ last.result.approved
    => /\ QGt(last.result.adjusted_quantity, Zero)
       /\ QGe(last.result.adjusted_leverage, QInt(1))
       /\ QGt(last.result.margin_required, Zero)

====
